---- MODULE Spec2Model ----
(***************************************************************************)
(* Model of the S3 secure downloader (utils/s3-downloader):                *)
(* fetchWithRetry, the two download strategies and downloadFromS3.         *)
(* One call runs at a time; every await of the JavaScript code is a        *)
(* position of pc, and every action is the synchronous code that runs      *)
(* between two awaits.                                                     *)
(***************************************************************************)
EXTENDS Integers, Sequences, FiniteSets, TLC

VARIABLES
    pc,          \* "idle" | "fetch" | "backoff" | "body" | "probe1" | "probe2" | "done"
                 \* | "signing" (between the calls of a caller that signs)
                 \* | "widget" (a DocumentSigner component is mounted)
    op,          \* the exported function that was called
    hasProgress, \* downloadFromS3: an onProgress callback was passed
    i,           \* downloadFromS3: loop index over strategies (0-based)
    dlLastError, \* downloadFromS3: let lastError
    request,     \* fetchWithRetry: (url, options) it was called with
    maxRetries,  \* fetchWithRetry: parameter maxRetries
    attempt,     \* fetchWithRetry: loop variable attempt
    lastError,   \* fetchWithRetry: let lastError
    response,    \* strategy: the response whose body is being read
    inFlight,    \* indexes (into requests) of fetch calls not yet settled
    requests,    \* every fetch call made, in order
    settled,     \* what each settled fetch call produced, in order
    waits,       \* every setTimeout delay (ms) scheduled, in order
    progress,    \* every onProgress call, in order
    outcome,     \* what the called function returned or threw
    nextErr,     \* identity of the next Error object created
    now,         \* wall clock, seconds
    bodyReads,   \* what each settled response.arrayBuffer() produced, in order
    calledKey,   \* the key argument of the call
    signed,      \* every call of a signer: its arguments, the clock, its result
    widget,      \* DocumentSigner: the state of the component (useState, useRef)
    flows,       \* DocumentSigner: the calls of downloadPdfFromS3, one per render
    calls        \* the downloadFromS3 calls that run at the same time

vars == <<pc, op, hasProgress, i, dlLastError, request, maxRetries, attempt,
          lastError, response, inFlight, requests, settled, waits, progress,
          outcome, nextErr, now, bodyReads, calledKey, signed, widget, flows,
          calls>>

-----------------------------------------------------------------------------
(* Bounds of the exploration *)

\* fetchWithRetry is called with maxRetries in -NegRetriesBound..MaxRetriesBound
NegRetriesBound == 1
MaxRetriesBound == 4
MaxBodyLen == 1
MaxKeyLen == 5
MaxSpecialLen == 2
\* a caller makes at most MaxSignCalls calls of the signers
MaxSignCalls == 2
\* the clock (seconds) does not go beyond MaxClock
MaxClock == 3
\* a download of the widget calls onProgress at most MaxProgressCalls times
MaxProgressCalls == 1

(* Inputs the environment can produce *)

Statuses == {200, 403, 404, 500}
StatusTexts == {"", "Forbidden", "Not Found", "Upstream 403"}
\* the Content-Type header of a response: absent, present and empty, present
ContentTypes == {<<>>, <<"">>, <<"text/html">>}
\* the bytes a body is made of ("%" and "P")
BodyBytes == {37, 80}
TransportMessages == {"Failed to fetch", "connect ETIMEDOUT 10.0.0.5:8403"}
BodyMessages == {"Failed to fetch"}

\* Response.ok
Ok(status) == status >= 200 /\ status <= 299

\* the code reads the status text of a failure and the content type of a
\* success only, so the other one is left at its empty value
Responses ==
    {r \in [kind : {"response"}, status : Statuses, statusText : StatusTexts,
            contentType : ContentTypes] :
        IF Ok(r.status) THEN r.statusText = "" ELSE r.contentType = <<>>}

RECURSIVE SeqsUpTo(_, _)
\* the sequences over alphabet of length at most n
SeqsUpTo(alphabet, n) ==
    IF n = 0 THEN {<<>>}
    ELSE LET shorter == SeqsUpTo(alphabet, n - 1)
         IN  shorter \cup {Append(q, c) : q \in shorter, c \in alphabet}

Bodies == SeqsUpTo(BodyBytes, MaxBodyLen)

\* A JavaScript string is the sequence of its code points; a code point in
\* 55296..57343 is an unpaired surrogate.
\* the characters of a key: % 2 5 F / a
KeyChars == {37, 50, 53, 70, 47, 97}
\* space ! # & ' ( ) * + = ? [ ] { }
SpecialChars == {32, 33, 35, 38, 39, 40, 41, 42, 43, 61, 63, 91, 93, 123, 125}
\* a high surrogate that no low surrogate follows
LoneSurrogate == 55296
\* 'folder/My File (final).pdf'
ExampleKey ==
    <<102, 111, 108, 100, 101, 114, 47, 77, 121, 32, 70, 105, 108, 101, 32, 40,
      102, 105, 110, 97, 108, 41, 46, 112, 100, 102>>
Keys ==
    SeqsUpTo(KeyChars, MaxKeyLen)
        \cup SeqsUpTo(SpecialChars \cup {LoneSurrogate}, MaxSpecialLen)
        \cup {ExampleKey}

-----------------------------------------------------------------------------
(* JavaScript values *)

Undefined == [kind |-> "undefined"]
Null == [kind |-> "null"]
Pending == [state |-> "pending"]

Error(id, message) == [kind |-> "error", id |-> id, message |-> message]

\* String.prototype.includes
Includes(s, sub) ==
    \E k \in 1..(Len(s) - Len(sub) + 1) : SubSeq(s, k, k + Len(sub) - 1) = sub

-----------------------------------------------------------------------------
(* encodeS3Key *)

StringValue(codes) == [kind |-> "string", value |-> codes]
URIError == [kind |-> "error", name |-> "URIError"]

\* the value of a hexadecimal digit, -1 for any other character
HexValue(c) ==
    IF c \in 48..57 THEN c - 48
    ELSE IF c \in 65..70 THEN c - 55
    ELSE IF c \in 97..102 THEN c - 87
    ELSE 0 - 1

\* the upper-case hexadecimal digit of n
HexDigit(n) == IF n < 10 THEN 48 + n ELSE 55 + n

\* "%XX" of a byte
PercentByte(b) == <<37, HexDigit(b \div 16), HexDigit(b % 16)>>

IsSurrogate(c) == c \in 55296..57343

\* the byte written as "%XX" at position k of s, -1 if there is none
EscapeAt(s, k) ==
    IF k + 2 <= Len(s) /\ s[k] = 37 /\ HexValue(s[k + 1]) >= 0 /\ HexValue(s[k + 2]) >= 0
        THEN 16 * HexValue(s[k + 1]) + HexValue(s[k + 2])
        ELSE 0 - 1

\* the number of bytes of the UTF-8 sequence that byte b starts, 0 if none
Utf8Length(b) ==
    IF b < 128 THEN 1
    ELSE IF b \in 192..223 THEN 2
    ELSE IF b \in 224..239 THEN 3
    ELSE IF b \in 240..247 THEN 4
    ELSE 0

\* the code point of the UTF-8 sequence of n escapes at the head of s, -1 if
\* it is malformed (a bad continuation byte, an overlong form, a surrogate,
\* a value above 0x10FFFF)
Utf8CodePoint(s, n) ==
    LET b(j) == EscapeAt(s, 3 * j + 1)
        cont(j) == b(j) \in 128..191
        cp == IF n = 1 THEN b(0)
              ELSE IF n = 2 THEN (b(0) - 192) * 64 + (b(1) - 128)
              ELSE IF n = 3 THEN (b(0) - 224) * 4096 + (b(1) - 128) * 64 + (b(2) - 128)
              ELSE (b(0) - 240) * 262144 + (b(1) - 128) * 4096
                       + (b(2) - 128) * 64 + (b(3) - 128)
        least == IF n = 1 THEN 0 ELSE IF n = 2 THEN 128 ELSE IF n = 3 THEN 2048 ELSE 65536
    IN  IF /\ \A j \in 1..(n - 1) : cont(j)
           /\ cp >= least /\ cp <= 1114111 /\ ~IsSurrogate(cp)
            THEN cp
            ELSE 0 - 1

RECURSIVE decodeURIComponent(_)
\* decodeURIComponent(s): the decoded string, or URIError
decodeURIComponent(s) ==
    IF s = <<>> THEN StringValue(<<>>)
    ELSE IF s[1] # 37
        THEN LET rest == decodeURIComponent(Tail(s))
             IN  IF rest = URIError THEN URIError
                                    ELSE StringValue(<<s[1]>> \o rest.value)
    ELSE LET b == EscapeAt(s, 1)
             n == IF b < 0 THEN 0 ELSE Utf8Length(b)
             cp == IF n = 0 \/ Len(s) < 3 * n THEN 0 - 1 ELSE Utf8CodePoint(s, n)
         IN  IF cp < 0 THEN URIError
             ELSE LET rest == decodeURIComponent(SubSeq(s, 3 * n + 1, Len(s)))
                  IN  IF rest = URIError THEN URIError
                                         ELSE StringValue(<<cp>> \o rest.value)

\* the characters encodeURIComponent leaves alone:
\* A-Z a-z 0-9 - _ . ! ~ * ' ( )
Unreserved(c) ==
    \/ c \in 65..90 \/ c \in 97..122 \/ c \in 48..57
    \/ c \in {45, 95, 46, 33, 126, 42, 39, 40, 41}

\* the UTF-8 bytes of a code point
Utf8(cp) ==
    IF cp < 128 THEN <<cp>>
    ELSE IF cp < 2048 THEN <<192 + (cp \div 64), 128 + (cp % 64)>>
    ELSE IF cp < 65536
        THEN <<224 + (cp \div 4096), 128 + ((cp \div 64) % 64), 128 + (cp % 64)>>
    ELSE <<240 + (cp \div 262144), 128 + ((cp \div 4096) % 64),
           128 + ((cp \div 64) % 64), 128 + (cp % 64)>>

RECURSIVE PercentBytes(_)
PercentBytes(bytes) ==
    IF bytes = <<>> THEN <<>> ELSE PercentByte(Head(bytes)) \o PercentBytes(Tail(bytes))

RECURSIVE encodeURIComponent(_)
\* encodeURIComponent(s) of a string without unpaired surrogate
encodeURIComponent(s) ==
    IF s = <<>> THEN <<>>
    ELSE (IF Unreserved(Head(s)) THEN <<Head(s)>> ELSE PercentBytes(Utf8(Head(s))))
             \o encodeURIComponent(Tail(s))

\* encodeURIComponent throws URIError on an unpaired surrogate
EncodeThrows(s) == \E k \in 1..Len(s) : IsSurrogate(s[k])

RECURSIVE ReplaceChars(_, _)
\* .replace(/[...]/g, c => '%' + c.charCodeAt(0).toString(16).toUpperCase())
\* and .replace(/\c/g, '%XX'), for the characters of chars
ReplaceChars(s, chars) ==
    IF s = <<>> THEN <<>>
    ELSE (IF Head(s) \in chars THEN PercentByte(Head(s)) ELSE <<Head(s)>>)
             \o ReplaceChars(Tail(s), chars)

EscapeMore_Nothing(s) == s

\* the chain of replacements applied to an encoded part: ! ' ( ) * first,
\* then ( ) [ ] { } # ? & = + one by one; the last one, %20 by %20, changes
\* nothing
EscapeMore(s) ==
    LET more == <<{40}, {41}, {91}, {93}, {123}, {125}, {35}, {63}, {38}, {61}, {43}>>
        Chain[n \in 0..Len(more)] ==
            IF n = 0 THEN ReplaceChars(s, {33, 39, 40, 41, 42})
                     ELSE ReplaceChars(Chain[n - 1], more[n])
    IN  Chain[Len(more)]

RECURSIVE Split(_, _)
\* s.split(sep) for a one-character separator
Split(s, sep) ==
    IF \A k \in 1..Len(s) : s[k] # sep THEN <<s>>
    ELSE LET k == CHOOSE j \in 1..Len(s) : s[j] = sep /\ \A h \in 1..(j - 1) : s[h] # sep
         IN  <<SubSeq(s, 1, k - 1)>> \o Split(SubSeq(s, k + 1, Len(s)), sep)

RECURSIVE Join(_, _)
\* parts.join(sep)
Join(parts, sep) ==
    IF Len(parts) = 0 THEN <<>>
    ELSE IF Len(parts) = 1 THEN parts[1]
    ELSE parts[1] \o <<sep>> \o Join(Tail(parts), sep)

\* decodedKey: the decoded key, or the key itself when decoding throws
DecodedKey(key) ==
    LET Caught(d) == IF d = URIError THEN key ELSE d.value
    IN  Caught(decodeURIComponent(key))

\* encodeS3Key(key): the encoded key, or the URIError that
\* encodeURIComponent throws
encodeS3Key(key) ==
    LET Encoded(pathParts) ==
            IF \E n \in 1..Len(pathParts) : EncodeThrows(pathParts[n])
                THEN URIError
                ELSE StringValue(Join([n \in 1..Len(pathParts) |->
                                          EscapeMore(encodeURIComponent(pathParts[n]))],
                                      47))
    IN  Encoded(Split(DecodedKey(key), 47))

-----------------------------------------------------------------------------
(* Strings.  The signers work on printable ASCII text; Str turns code       *)
(* points into the string and Codes does the reverse.                      *)

AsciiLow == " !\"#$%&'()*+,-./0123456789:;<=>?@ABCDEFGHIJKLMNOPQRSTUVWXYZ[\\]^_"
AsciiHigh == "abcdefghijklmnopqrstuvwxyz{|}~"

\* String.fromCharCode(c), for c in 32..126 except 96
Chr(c) ==
    IF c < 96 THEN SubSeq(AsciiLow, c - 31, c - 31)
              ELSE SubSeq(AsciiHigh, c - 96, c - 96)

\* ch.charCodeAt(0)
Ord(ch) == CHOOSE c \in (32..95) \cup (97..126) : Chr(c) = ch

RECURSIVE Str(_)
Str(codes) == IF codes = <<>> THEN "" ELSE Chr(Head(codes)) \o Str(Tail(codes))

RECURSIVE Codes(_)
Codes(str) ==
    IF str = "" THEN <<>>
    ELSE <<Ord(SubSeq(str, 1, 1))>> \o Codes(SubSeq(str, 2, Len(str)))

RECURSIVE JoinStrings(_, _)
\* parts.join(sep) of strings
JoinStrings(parts, sep) ==
    IF Len(parts) = 0 THEN ""
    ELSE IF Len(parts) = 1 THEN parts[1]
    ELSE parts[1] \o sep \o JoinStrings(Tail(parts), sep)

-----------------------------------------------------------------------------
(* Credentials, bucket and keys *)

DefaultConfig ==
    [accessKey |-> "AKIDEXAMPLE", secretKey |-> "wJalrXUtnFEMI", region |-> "us-east-1"]
OtherConfig ==
    [accessKey |-> "AKIDOTHER", secretKey |-> "je7MtGbClwBF", region |-> "eu-west-2"]
\* the config argument of the signers
Configs == {DefaultConfig, OtherConfig}

BucketName == "docs"

\* 'doc.pdf', the key a download is about
ObjectKey == <<100, 111, 99, 46, 112, 100, 102>>

\* 'a/../doc.pdf': the same object named through a folder and its parent
DotKey == <<97, 47, 46, 46, 47, 100, 111, 99, 46, 112, 100, 102>>

\* the fileName argument of the downloads
DownloadKeys == {ObjectKey, DotKey}

\* '__connection_test__'
TestKey == <<95, 95, 99, 111, 110, 110, 101, 99, 116, 105, 111, 110, 95, 116, 101, 115, 116, 95, 95>>

\* the fileName argument of the signers
SignKeys == {ExampleKey}

DefaultExpiration == 3600
TestExpiration == 60
\* the expirationSeconds argument of createPresignedUrl
Expirations == {DefaultExpiration, TestExpiration}
\* the time (seconds) that passes between two calls of a signer
ClockSteps == {1}

-----------------------------------------------------------------------------
(* CryptoJS.  A digest is the term that records what was hashed and with    *)
(* which key; toString() of a digest is its hexadecimal text.              *)

\* CryptoJS.HmacSHA256(message, key): the raw digest (a WordArray)
HmacSHA256(message, key) == [kind |-> "HmacSHA256", message |-> message, key |-> key]

\* CryptoJS.SHA256(message)
SHA256(message) == [kind |-> "SHA256", message |-> message]

\* wordArray.toString(): 64 hexadecimal digits
ToHex(wordArray) == [kind |-> "hex", words |-> wordArray]

-----------------------------------------------------------------------------
(* getAmzDateStrings.  The clock counts the seconds since ClockBase, which  *)
(* is 2024-01-01T23:59:58.000Z, two seconds before midnight.               *)

ClockBase == 86398

Pad2(n) == IF n < 10 THEN "0" \o ToString(n) ELSE ToString(n)

\* now.toISOString(), within January 2024
ToISOString(t) ==
    LET sec == ClockBase + t
    IN  "2024-01-" \o Pad2(1 + (sec \div 86400)) \o "T" \o Pad2((sec \div 3600) % 24)
            \o ":" \o Pad2((sec \div 60) % 60) \o ":" \o Pad2(sec % 60) \o ".000Z"

RECURSIVE RemoveAll(_, _)
\* .replace(/[...]/g, '') for the characters of chars
RemoveAll(str, chars) ==
    IF str = "" THEN ""
    ELSE (IF SubSeq(str, 1, 1) \in chars THEN "" ELSE SubSeq(str, 1, 1))
             \o RemoveAll(SubSeq(str, 2, Len(str)), chars)

IsDigit(ch) == ch \in {"0", "1", "2", "3", "4", "5", "6", "7", "8", "9"}

\* .replace(/\.\d{3}/, ''): the first match only
RemoveMillis(str) ==
    LET Match(k) == /\ SubSeq(str, k, k) = "."
                    /\ \A j \in 1..3 : IsDigit(SubSeq(str, k + j, k + j))
        matches == {k \in 1..(Len(str) - 3) : Match(k)}
    IN  IF matches = {} THEN str
        ELSE LET k == CHOOSE m \in matches : \A n \in matches : m <= n
             IN  SubSeq(str, 1, k - 1) \o SubSeq(str, k + 4, Len(str))

DateStrings_StampOfFirstDay(amzDate) == [amzDate |-> amzDate, dateStamp |-> "20240101"]

\* { amzDate, dateStamp: amzDate.substr(0, 8) }
DateStrings(amzDate) == [amzDate |-> amzDate, dateStamp |-> SubSeq(amzDate, 1, 8)]

getAmzDateStrings_CallCount(t) ==
    DateStrings(RemoveMillis(RemoveAll(ToISOString(t + Len(signed)), {":", "-"})))

\* getAmzDateStrings(), called when the clock reads t
getAmzDateStrings(t) ==
    DateStrings(RemoveMillis(RemoveAll(ToISOString(t), {":", "-"})))

-----------------------------------------------------------------------------
(* createSigningKey *)

createSigningKey_HexChained(secretKey, dateStamp, region, service) ==
    LET kDate    == HmacSHA256(dateStamp, "AWS4" \o secretKey)
        kRegion  == HmacSHA256(region, ToHex(kDate))
        kService == HmacSHA256(service, ToHex(kRegion))
    IN  HmacSHA256("aws4_request", ToHex(kService))

createSigningKey(secretKey, dateStamp, region, service) ==
    LET kDate    == HmacSHA256(dateStamp, "AWS4" \o secretKey)
        kRegion  == HmacSHA256(region, kDate)
        kService == HmacSHA256(service, kRegion)
    IN  HmacSHA256("aws4_request", kService)

-----------------------------------------------------------------------------
(* URLSearchParams: a list of <<name, value>> *)

\* queryParams.set(name, value)
ParamsSet(params, name, value) ==
    IF \E n \in 1..Len(params) : params[n][1] = name
        THEN [n \in 1..Len(params) |->
                 IF params[n][1] = name THEN <<name, value>> ELSE params[n]]
        ELSE Append(params, <<name, value>>)

\* the application/x-www-form-urlencoded form of a code point
FormEncodeCode(c) ==
    IF c \in 48..57 \/ c \in 65..90 \/ c \in 97..122 \/ c \in {42, 45, 46, 95}
        THEN <<c>>
    ELSE IF c = 32 THEN <<43>>
    ELSE PercentBytes(Utf8(c))

RECURSIVE FormEncodeCodes(_)
FormEncodeCodes(codes) ==
    IF codes = <<>> THEN <<>>
    ELSE FormEncodeCode(Head(codes)) \o FormEncodeCodes(Tail(codes))

FormEncode(str) == Str(FormEncodeCodes(Codes(str)))

Serialized_Unescaped(param) == param

\* a serialized parameter; the signature is hexadecimal text, which the
\* serializer leaves as it is
Serialized(param) ==
    <<FormEncode(param[1]),
      IF param[1] = "X-Amz-Signature" THEN param[2] ELSE FormEncode(param[2])>>

\* the name=value pairs of queryParams.toString(), in order
SerializedParams(params) == [n \in 1..Len(params) |-> Serialized(params[n])]

\* queryParams.toString() of parameters whose values are strings
ParamsToString(params) ==
    JoinStrings([n \in 1..Len(params) |->
                    FormEncode(params[n][1]) \o "=" \o FormEncode(params[n][2])], "&")

-----------------------------------------------------------------------------
(* createPresignedUrl and createSignedHeaders *)

\* `${bucketName}.s3.${region}.amazonaws.com`
Host(bucketName, region) == bucketName \o ".s3." \o region \o ".amazonaws.com"

\* `https://${bucketName}.s3.${region}.amazonaws.com`
Endpoint(bucketName, region) == "https://" \o Host(bucketName, region)

Credential_SecretKey(config, credentialScope) ==
    config.secretKey \o "/" \o credentialScope

\* `${accessKey}/${credentialScope}`
Credential(config, credentialScope) == config.accessKey \o "/" \o credentialScope

\* a URL: origin, path and the serialized parameters of its query string
Url(origin, path, query) ==
    [kind |-> "url", origin |-> origin, path |-> path, query |-> query]

\* createPresignedUrl(config, bucketName, fileName, expirationSeconds),
\* called when the clock reads t: the URL, or the URIError of encodeS3Key
createPresignedUrl(config, bucketName, fileName, expirationSeconds, t) ==
    LET Signed(encodedKey, dates) ==
        LET method == "GET"
            service == "s3"
            algorithm == "AWS4-HMAC-SHA256"
            endpoint == Endpoint(bucketName, config.region)
            canonicalUri == "/" \o Str(encodedKey.value)
            credentialScope ==
                dates.dateStamp \o "/" \o config.region \o "/" \o service \o "/aws4_request"
            p1 == ParamsSet(<<>>, "X-Amz-Algorithm", algorithm)
            p2 == ParamsSet(p1, "X-Amz-Credential", Credential(config, credentialScope))
            p3 == ParamsSet(p2, "X-Amz-Date", dates.amzDate)
            p4 == ParamsSet(p3, "X-Amz-Expires", ToString(expirationSeconds))
            p5 == ParamsSet(p4, "X-Amz-SignedHeaders", "host")
            canonicalQuerystring == ParamsToString(p5)
            canonicalHeaders == "host:" \o Host(bucketName, config.region) \o "\n"
            signedHeaders == "host"
            payloadHash == "UNSIGNED-PAYLOAD"
            canonicalRequest ==
                JoinStrings(<<method, canonicalUri, canonicalQuerystring, canonicalHeaders,
                              signedHeaders, payloadHash>>, "\n")
            \* the lines of the string to sign
            stringToSign ==
                <<algorithm, dates.amzDate, credentialScope, ToHex(SHA256(canonicalRequest))>>
            signingKey == createSigningKey(config.secretKey, dates.dateStamp, config.region, service)
            signature == ToHex(HmacSHA256(stringToSign, signingKey))
            p6 == ParamsSet(p5, "X-Amz-Signature", signature)
        IN  IF encodedKey = URIError THEN URIError
            ELSE Url(endpoint, canonicalUri, SerializedParams(p6))
    IN  Signed(encodeS3Key(fileName), getAmzDateStrings(t))

\* `${algorithm} Credential=${credential}, SignedHeaders=${signedHeaders},
\* Signature=${signature}`: the text before the signature, and the signature
AuthorizationValue(algorithm, credential, signedHeaders, signature) ==
    [kind |-> "authorization",
     text |-> algorithm \o " Credential=" \o credential \o ", SignedHeaders="
                  \o signedHeaders \o ", Signature=",
     signature |-> signature]

\* createSignedHeaders(config, bucketName, fileName), called when the clock
\* reads t: the header map, or the URIError of encodeS3Key
createSignedHeaders(config, bucketName, fileName, t) ==
    LET Signed(encodedFileName, dates) ==
        LET algorithm == "AWS4-HMAC-SHA256"
            credentialScope == dates.dateStamp \o "/" \o config.region \o "/s3/aws4_request"
            credential == Credential(config, credentialScope)
            canonicalHeaders ==
                "host:" \o Host(bucketName, config.region) \o "\nx-amz-date:"
                    \o dates.amzDate \o "\n"
            signedHeaders == "host;x-amz-date"
            canonicalRequest ==
                JoinStrings(<<"GET", "/" \o Str(encodedFileName.value), "", canonicalHeaders,
                              signedHeaders, "UNSIGNED-PAYLOAD">>, "\n")
            stringToSign ==
                <<algorithm, dates.amzDate, credentialScope, ToHex(SHA256(canonicalRequest))>>
            signingKey == createSigningKey(config.secretKey, dates.dateStamp, config.region, "s3")
            signature == ToHex(HmacSHA256(stringToSign, signingKey))
        IN  IF encodedFileName = URIError THEN URIError
            ELSE ("Authorization" :>
                      AuthorizationValue(algorithm, credential, signedHeaders, signature))
                 @@ ("X-Amz-Date" :> dates.amzDate)
                 @@ ("X-Amz-Content-Sha256" :> "UNSIGNED-PAYLOAD")
    IN  Signed(encodeS3Key(fileName), getAmzDateStrings(t))

\* `/${encodeS3Key(fileName)}`
KeyPath(key) == "/" \o Str(encodeS3Key(key).value)

\* the encoded key of the object a download is about, after the '/'
ObjectPath == KeyPath(ObjectKey)

\* `https://${bucketName}.s3.${config.region}.amazonaws.com/${encodeS3Key(fileName)}`
DirectUrlOf(key) == Url(Endpoint(BucketName, DefaultConfig.region), KeyPath(key), <<>>)

DirectUrl == DirectUrlOf(ObjectKey)

-----------------------------------------------------------------------------
(* fetchWithRetry *)

DefaultMaxRetries == 3

LoopRuns_OneMore(a, m) == a <= m + 1

\* for (let attempt = 1; attempt <= maxRetries; attempt++)
LoopRuns(a, m) == a <= m

\* if (attempt < maxRetries)
ShouldWait(a, m) == a < m

BackoffDelay_Constant(a) == 1000

\* setTimeout(resolve, attempt * 1000)
BackoffDelay(a) == a * 1000

-----------------------------------------------------------------------------
(* The strategies *)

Strategies_Swapped == <<"direct", "presigned">>

\* const strategies = [{ name: 'presigned', ... }, { name: 'direct', ... }]
Strategies == <<"presigned", "direct">>

StrategyUrl(name, key, t) ==
    IF name = "presigned"
        THEN createPresignedUrl(DefaultConfig, BucketName, key, DefaultExpiration, t)
        ELSE DirectUrlOf(key)

StrategyRequest(name, key, t) ==
    [strategy |-> name,
     method   |-> "GET",
     url      |-> StrategyUrl(name, key, t),
     headers  |-> IF name = "presigned"
                    THEN ("Accept" :> "application/pdf,*/*")
                    ELSE createSignedHeaders(DefaultConfig, BucketName, key, t)
                             @@ ("Accept" :> "application/pdf,*/*")]

Event(percent, message, url) ==
    [percent |-> percent, message |-> message, url |-> url]

\* onProgress(10 + (i * 10), `Trying ${strategy.name} method...`, null)
TryingPercent(k) == 10 + (k * 10)

TryingEvent(k) ==
    Event(TryingPercent(k), "Trying " \o Strategies[k + 1] \o " method...", Null)

\* the two checkpoints of a strategy before its request
StrategyEvents(name, key, t) ==
    LET Events(url) ==
            IF name = "presigned"
                THEN << Event(20, "Creating pre-signed URL...", Null),
                        Event(40, "Downloading via pre-signed URL...", url) >>
                ELSE << Event(20, "Creating direct signed request...", Null),
                        Event(40, "Downloading with signed headers...", url) >>
    IN  Events(StrategyUrl(name, key, t))

\* throw new Error(`... download failed: ${response.status} ${response.statusText}`)
HttpErrorMessage(name, resp) ==
    (IF name = "presigned" THEN "Pre-signed URL download failed: "
                           ELSE "Direct signed download failed: ")
        \o ToString(resp.status) \o " " \o resp.statusText

-----------------------------------------------------------------------------
(* The state as one record, so that the code between two awaits composes  *)
(* as sequential assignments                                              *)

S ==
    [pc |-> pc, op |-> op, hasProgress |-> hasProgress, i |-> i,
     dlLastError |-> dlLastError, request |-> request, maxRetries |-> maxRetries,
     attempt |-> attempt, lastError |-> lastError, response |-> response,
     inFlight |-> inFlight, requests |-> requests, settled |-> settled,
     waits |-> waits, progress |-> progress, outcome |-> outcome,
     nextErr |-> nextErr, now |-> now, bodyReads |-> bodyReads,
     calledKey |-> calledKey, signed |-> signed, widget |-> widget,
     flows |-> flows, calls |-> calls]

Assign(s) ==
    /\ pc' = s.pc
    /\ op' = s.op
    /\ hasProgress' = s.hasProgress
    /\ i' = s.i
    /\ dlLastError' = s.dlLastError
    /\ request' = s.request
    /\ maxRetries' = s.maxRetries
    /\ attempt' = s.attempt
    /\ lastError' = s.lastError
    /\ response' = s.response
    /\ inFlight' = s.inFlight
    /\ requests' = s.requests
    /\ settled' = s.settled
    /\ waits' = s.waits
    /\ progress' = s.progress
    /\ outcome' = s.outcome
    /\ nextErr' = s.nextErr
    /\ now' = s.now
    /\ bodyReads' = s.bodyReads
    /\ calledKey' = s.calledKey
    /\ signed' = s.signed
    /\ widget' = s.widget
    /\ flows' = s.flows
    /\ calls' = s.calls

\* the called function returns v / throws e to the caller of the module
Return(s, v) == [s EXCEPT !.pc = "done", !.outcome = [state |-> "returned", value |-> v]]
Throw(s, e) == [s EXCEPT !.pc = "done", !.outcome = [state |-> "thrown", value |-> e]]

\* if (onProgress) onProgress(...)
Report(s, events) ==
    [s EXCEPT !.progress = IF s.hasProgress THEN @ \o events ELSE @]

\* the fetch call that was pending has settled with v
Settle(s, rid, v) ==
    [s EXCEPT !.inFlight = @ \ {rid}, !.settled = Append(@, v)]

-----------------------------------------------------------------------------
(* downloadFromS3 *)

IsCredentialIssue_OnlyAccessDenied(message) == Includes(message, "Access denied")

\* error.message.includes('403') || error.message.includes('Access denied')
IsCredentialIssue(message) ==
    Includes(message, "403") \/ Includes(message, "Access denied")

GenericMessage == "All download methods failed"

ThrownAfterLoop_Generic(err, id) == Error(id, GenericMessage)

\* lastError || new Error('All download methods failed')
ThrownAfterLoop(err, id) ==
    IF err # Null THEN err ELSE Error(id, GenericMessage)

RECURSIVE CatchStrategy(_, _)

IssueFetch_NeverSettles(s) ==
    [s EXCEPT !.requests = Append(@, s.request), !.pc = "fetch"]

\* await fetch(url, options)
IssueFetch(s) ==
    [s EXCEPT !.requests = Append(@, s.request),
              !.inFlight = @ \cup {Len(s.requests) + 1},
              !.pc = "fetch"]

\* fetchWithRetry throws e to its caller
FetchThrows(s, e) ==
    IF s.op = "fetchWithRetry" THEN Throw(s, e) ELSE CatchStrategy(s, e)

\* fetchWithRetry: the loop from its test to the next await, or the throw
\* after the loop
RetryLoop(s) ==
    IF LoopRuns(s.attempt, s.maxRetries)
        THEN IssueFetch(s)
        ELSE FetchThrows(s, s.lastError)

\* fetchWithRetry(url, options, maxRetries) up to its first await
fetchWithRetry(s, req, m) ==
    RetryLoop([s EXCEPT !.request = req, !.maxRetries = m,
                        !.lastError = Undefined, !.attempt = 1])

AttemptFailed_KeepFirst(s, error) ==
    LET s1 == [s EXCEPT !.lastError = IF @ = Undefined THEN error ELSE @]
    IN  IF ShouldWait(s1.attempt, s1.maxRetries)
            THEN [s1 EXCEPT !.waits = Append(@, BackoffDelay(s1.attempt)),
                            !.pc = "backoff"]
            ELSE RetryLoop([s1 EXCEPT !.attempt = @ + 1])

\* fetchWithRetry: catch (error) of one attempt
AttemptFailed(s, error) ==
    LET s1 == [s EXCEPT !.lastError = error]
    IN  IF ShouldWait(s1.attempt, s1.maxRetries)
            THEN [s1 EXCEPT !.waits = Append(@, BackoffDelay(s1.attempt)),
                            !.pc = "backoff"]
            ELSE RetryLoop([s1 EXCEPT !.attempt = @ + 1])

\* fetchWithRetry: the backoff timer has fired
BackoffOver(s) ==
    RetryLoop([s EXCEPT !.attempt = @ + 1,
                        !.now = @ + (s.waits[Len(s.waits)] \div 1000)])

\* downloadWithPresignedUrl / downloadWithDirectSigning up to the first await
RunStrategy(s) ==
    LET name == Strategies[s.i + 1]
        t    == s.now
        s1   == Report(s, <<TryingEvent(s.i)>> \o StrategyEvents(name, s.calledKey, t))
    IN  fetchWithRetry(s1, StrategyRequest(name, s.calledKey, t), DefaultMaxRetries)

\* for (let i = 0; i < strategies.length; i++) ... throw lastError || ...
StrategyLoop(s) ==
    IF s.i < Len(Strategies)
        THEN RunStrategy(s)
        ELSE Throw([s EXCEPT !.nextErr = IF s.dlLastError # Null THEN @ ELSE @ + 1],
                   ThrownAfterLoop(s.dlLastError, s.nextErr))

CatchStrategy_KeepFirst(s, e) ==
    LET s1 == [s EXCEPT !.dlLastError = IF @ = Null THEN e ELSE @]
    IN  IF IsCredentialIssue(e.message)
            THEN Throw(s1, e)
            ELSE StrategyLoop([s1 EXCEPT !.i = @ + 1])

\* catch (error) of the strategy loop
CatchStrategy(s, e) ==
    LET s1 == [s EXCEPT !.dlLastError = e]
    IN  IF IsCredentialIssue(e.message)
            THEN Throw(s1, e)
            ELSE StrategyLoop([s1 EXCEPT !.i = @ + 1])

\* a strategy after fetchWithRetry has returned a response
StrategyGotResponse(s, resp) ==
    IF ~Ok(resp.status)
        THEN CatchStrategy([s EXCEPT !.nextErr = @ + 1],
                           Error(s.nextErr, HttpErrorMessage(Strategies[s.i + 1], resp)))
        ELSE [Report(s, <<Event(80, "Processing downloaded data...", s.request.url)>>)
                  EXCEPT !.response = resp, !.pc = "body"]

FetchReturns_Retry5xx(s, resp) ==
    IF resp.status >= 500
        THEN AttemptFailed([s EXCEPT !.nextErr = @ + 1],
                           Error(s.nextErr, "HTTP " \o ToString(resp.status)))
        ELSE IF s.op = "fetchWithRetry" THEN Return(s, resp)
                                        ELSE StrategyGotResponse(s, resp)

\* fetchWithRetry returns the response to its caller
FetchReturns(s, resp) ==
    IF s.op = "fetchWithRetry" THEN Return(s, resp) ELSE StrategyGotResponse(s, resp)

\* response.headers.get('Content-Type'): <<>> stands for null (header
\* absent), <<v>> for the string v
HeadersGet(resp) == resp.contentType

\* value || fallback: null and the empty string are falsy
OrElse(value, fallback) ==
    IF value = <<>> \/ value = <<"">> THEN fallback ELSE value[1]

Result_SizePlusOne(s, arrayBuffer) ==
    [kind |-> "result",
     buffer |-> arrayBuffer,
     contentType |-> OrElse(HeadersGet(s.response), "application/pdf"),
     size |-> Len(arrayBuffer) + 1,
     presignedUrl |-> s.request.url]

\* the result object of a strategy
Result(s, arrayBuffer) ==
    [kind |-> "result",
     buffer |-> arrayBuffer,
     contentType |-> OrElse(HeadersGet(s.response), "application/pdf"),
     size |-> Len(arrayBuffer),
     presignedUrl |-> s.request.url]

\* response.arrayBuffer() has settled with v
ReadBody(s, v) == [s EXCEPT !.bodyReads = Append(@, v)]

StrategyGotBody_NoReturn(s, arrayBuffer) ==
    StrategyLoop([Report(s, <<Event(100, "Download completed", s.request.url)>>)
                      EXCEPT !.i = @ + 1])

\* a strategy after response.arrayBuffer() has resolved, and the return of
\* its result by downloadFromS3
StrategyGotBody(s, arrayBuffer) ==
    Return(Report(s, <<Event(100, "Download completed", s.request.url)>>),
           Result(s, arrayBuffer))

\* a strategy whose response.arrayBuffer() has rejected
StrategyBodyFailed(s, e) == CatchStrategy(s, e)

\* downloadFromS3 up to its first await
downloadFromS3(s, flag, key) ==
    StrategyLoop(Report([s EXCEPT !.op = "downloadFromS3", !.hasProgress = flag,
                                  !.calledKey = key, !.dlLastError = Null, !.i = 0],
                        <<Event(5, "Initializing download...", Null)>>))

-----------------------------------------------------------------------------
(* Two downloadFromS3 calls in flight at the same time.  Each call is an  *)
(* activation of the async function: the bindings it declares (let        *)
(* lastError, the loop variables, the parameters) are its own, and a      *)
(* binding declared at module level would be one cell for all calls.  The *)
(* clock a call reads is the time its own waits have let pass.            *)

Callers == {1, 2}

\* what the network and the body reads answer to these calls
PairResponses ==
    {r \in Responses :
        /\ r.status \in {200, 404}
        /\ IF Ok(r.status) THEN r.contentType = <<>> ELSE r.statusText = "Not Found"}
PairMessages == {"Failed to fetch"}
PairBodies == {<<37, 80>>}

\* what ends an await of a call: a response, a rejection, a timer, the body
PairInputs ==
    [kind : {"response"}, value : PairResponses]
        \cup [kind : {"error", "bodyError"}, value : PairMessages]
        \cup [kind : {"bytes"}, value : PairBodies]
        \cup [kind : {"timer"}, value : {Null}]

\* the await a call is suspended at takes this input
Awaits(s, in) ==
    \/ s.pc = "fetch" /\ s.inFlight # {} /\ in.kind \in {"response", "error"}
    \/ s.pc = "backoff" /\ in.kind = "timer"
    \/ s.pc = "body" /\ in.kind \in {"bytes", "bodyError"}

\* the code of a call from the await that input in ends to its next await
Resume(s, in) ==
    LET rid   == CHOOSE r \in s.inFlight : TRUE
        error == Error(s.nextErr, in.value)
    IN  CASE in.kind = "response" ->
                FetchReturns(Settle(s, rid, in.value), in.value)
          [] in.kind = "error" ->
                AttemptFailed([Settle(s, rid, error) EXCEPT !.nextErr = @ + 1], error)
          [] in.kind = "timer" -> BackoffOver(s)
          [] in.kind = "bytes" ->
                StrategyGotBody(ReadBody(s, [kind |-> "bytes", bytes |-> in.value]),
                                in.value)
          [] in.kind = "bodyError" ->
                StrategyBodyFailed([ReadBody(s, error) EXCEPT !.nextErr = @ + 1], error)

ModuleLevel_Attempt == {"attempt"}

\* the bindings declared outside every function: the module declares none
ModuleLevel == {}

\* the memory after call c has run up to s: the other calls see what c
\* wrote to the module-level bindings and nothing else
Interleave(cs, c, resumed) ==
    [d \in DOMAIN cs |->
        IF d = c
            THEN resumed
            ELSE [cs[d] EXCEPT !.state =
                     [f \in DOMAIN @ |->
                         IF f \in ModuleLevel THEN resumed.state[f] ELSE @[f]]]]

\* a call that has just been made: where it is (state), and where the same
\* call is when it runs alone and is given the same inputs (alone)
NewCall(s, flag) == [k \in {"state", "alone"} |-> downloadFromS3(s, flag, ObjectKey)]

\* Promise.all of two downloadFromS3 calls: both run up to their first await
CallTwice(s, flag) ==
    [s EXCEPT !.pc = "concurrent",
              !.calls = [c \in Callers |-> NewCall(s, flag)]]

\* call c is given the input that ends its await
Deliver(s, c, in) ==
    [s EXCEPT !.calls =
                 Interleave(@, c, [k \in {"state", "alone"} |-> Resume(@[c][k], in)])]

-----------------------------------------------------------------------------
(* Calls of the synchronous functions *)

\* a call of encodeS3Key(key)
CallOfEncodeS3Key(s, key) ==
    LET s1 == [s EXCEPT !.op = "encodeS3Key", !.calledKey = key]
        r  == encodeS3Key(key)
    IN  IF r = URIError THEN Throw(s1, r) ELSE Return(s1, r)

\* a call of one of the signers that produced result (a value, or the
\* URIError it threw)
CallOfSigner(s, fn, config, key, expirationSeconds, result) ==
    LET call == [fn |-> fn, config |-> config, bucketName |-> BucketName,
                 fileName |-> key, expirationSeconds |-> expirationSeconds,
                 clock |-> s.now, result |-> result]
        s1 == [s EXCEPT !.op = fn, !.signed = Append(@, call)]
    IN  [(IF result = URIError THEN Throw(s1, result) ELSE Return(s1, result))
             EXCEPT !.pc = "signing"]

-----------------------------------------------------------------------------
(* testS3Connection *)

\* createPresignedUrl(config, bucketName, '__connection_test__', 60)
TestUrl(t) == createPresignedUrl(DefaultConfig, BucketName, TestKey, TestExpiration, t)

\* `https://${bucketName}.s3.${config.region}.amazonaws.com/`
BucketUrl == Url(Endpoint(BucketName, DefaultConfig.region), "/", <<>>)

\* fetch(url, { method: 'HEAD', mode: 'cors' })
ProbeRequest(name, url) ==
    [strategy |-> name, method |-> "HEAD", url |-> url, headers |-> <<>>]

TestResult(success, message) ==
    [kind |-> "diagnostic", success |-> success, message |-> message]

Probe1Succeeds_Only200(status) == status = 200

\* if (response.status === 200 || response.status === 404)
Probe1Succeeds(status) == status = 200 \/ status = 404

Probe2Succeeds_Only200(status) == status = 200
Probe2Succeeds_LikeProbe1(status) == status = 200 \/ status = 404

\* if (response.status === 200 || response.status === 403)
Probe2Succeeds(status) == status = 200 \/ status = 403

FailureMessage_Bare(error) == error.message

\* `Connection test failed: ${error.message}`
FailureMessage(error) == "Connection test failed: " \o error.message

TestCaught_Rethrows(s, error) == Throw(s, error)

\* the outer catch (error)
TestCaught(s, error) == Return(s, TestResult(FALSE, FailureMessage(error)))

\* throw new Error('All connection test methods failed')
AllProbesFailed(s) ==
    TestCaught([s EXCEPT !.nextErr = @ + 1],
               Error(s.nextErr, "All connection test methods failed"))

\* Method 2 up to its await
SecondProbe(s) ==
    [IssueFetch([s EXCEPT !.request = ProbeRequest("probe2", BucketUrl)])
         EXCEPT !.pc = "probe2"]

\* testS3Connection up to its first await
testS3Connection(s) ==
    LET s1 == [s EXCEPT !.op = "testS3Connection",
                        !.request = ProbeRequest("probe1", TestUrl(s.now))]
    IN  [IssueFetch(s1) EXCEPT !.pc = "probe1"]

\* the code after the await of a probe whose fetch resolved
ProbeGotResponse(s, resp) ==
    IF s.pc = "probe1"
        THEN IF Probe1Succeeds(resp.status)
                THEN Return(s, TestResult(TRUE, "AWS credentials valid (pre-signed URL)"))
                ELSE SecondProbe(s)
        ELSE IF Probe2Succeeds(resp.status)
                THEN Return(s, TestResult(TRUE, "AWS setup valid (direct access)"))
                ELSE AllProbesFailed(s)

ProbeFailed_NoSecondProbe(s, error) == TestCaught(s, error)

\* the inner catch (error) of a probe whose fetch rejected
ProbeFailed(s, error) ==
    IF s.pc = "probe1" THEN SecondProbe(s) ELSE AllProbesFailed(s)

-----------------------------------------------------------------------------
(* DocumentSigner (src/DocumentSigner.jsx).  The component is rendered     *)
(* once for each configuration in Renders; downloadFromS3 is its           *)
(* environment: it calls onProgress and then resolves or rejects.  A state *)
(* that holds '' or a value holds <<>> or <<value>>; log messages are      *)
(* kept without pictograph, time and widget id.                            *)

\* the renders with new configuration props: the first and a later one
Renders == {1, 2}

\* the status of the configuration props of a render
PropStatuses == {"available", "loading", "unavailable"}

\* the values of the configuration props of a render
PropValues(render) ==
    [awsAccessKey |-> " AKIDEXAMPLE", awsSecretKey |-> "wJalrXUtnFEMI ",
     awsRegion |-> "us-east-1", s3BucketName |-> "docs",
     fileName |-> IF render = 1 THEN "a.pdf " ELSE " b.pdf"]

\* '%PDF-' and '<html'
PdfBody == <<37, 80, 68, 70, 45>>
HtmlBody == <<60, 104, 116, 109, 108>>
\* the bodies a download of the widget resolves with
WidgetBodies == {PdfBody, HtmlBody}

\* the messages of the errors a download of the widget rejects with
WidgetErrors ==
    {"Pre-signed URL download failed: 403 Forbidden",
     "Direct signed download failed: 404 Not Found",
     "Failed to fetch"}

\* the (progress, status) pairs downloadFromS3 passes to onProgress
ProgressCalls ==
    {<<10, "Trying presigned method...">>,
     <<40, "Downloading via pre-signed URL...">>,
     <<100, "Download completed">>}

RECURSIVE Trim(_)
\* value.trim(), for spaces
Trim(str) ==
    IF str = "" THEN ""
    ELSE IF SubSeq(str, 1, 1) = " " THEN Trim(SubSeq(str, 2, Len(str)))
    ELSE IF SubSeq(str, Len(str), Len(str)) = " " THEN Trim(SubSeq(str, 1, Len(str) - 1))
    ELSE str

DebugLimit == 100

\* newLogs.slice(-100)
LastEntries(logs) ==
    IF Len(logs) <= DebugLimit THEN logs
    ELSE SubSeq(logs, Len(logs) - DebugLimit + 1, Len(logs))

\* addDebugLog(message)
addDebugLog(s, message) ==
    [s EXCEPT !.widget.debugInfo = LastEntries(Append(@, message))]

RECURSIVE addDebugLogs(_, _)
addDebugLogs(s, messages) ==
    IF messages = <<>> THEN s
    ELSE addDebugLogs(addDebugLog(s, Head(messages)), Tail(messages))

\* the state of the component after its first render and the mount effect
MountedWidget ==
    [pdfUrl |-> <<>>, isLoading |-> TRUE, error |-> <<>>,
     loadingStatus |-> "Initializing widget...", downloadProgress |-> 0,
     debugInfo |-> <<"DocumentSigner Widget initialized">>,
     previousBlobUrl |-> <<>>, blobUrls |-> 0, revoked |-> {}]

NoFlow == [pc |-> "none"]

\* downloadPdfFromS3(awsConfig) up to its await of downloadFromS3
downloadPdfFromS3(s, render, awsConfig) ==
    LET s1 == [s EXCEPT !.widget.isLoading = TRUE,
                        !.widget.error = <<>>,
                        !.widget.downloadProgress = 0,
                        !.widget.loadingStatus = "Initializing document downloader..."]
        s2 == addDebugLogs(s1, <<"Starting PDF download from S3...",
                                 "File: " \o awsConfig.fileName,
                                 "Bucket: " \o awsConfig.bucketName,
                                 "Region: " \o awsConfig.region>>)
    IN  [s2 EXCEPT !.widget.loadingStatus = "Downloading PDF file...",
                   !.flows[render] = [pc |-> "download", awsConfig |-> awsConfig,
                                      progressCalls |-> 0, pdfBlob |-> Undefined]]

IncompleteError ==
    [message |-> "Configuration incomplete. Please check all required fields are provided.",
     steps |-> <<"Ensure AWS Access Key is provided",
                 "Ensure AWS Secret Key is provided",
                 "Ensure AWS Region is provided",
                 "Ensure S3 Bucket Name is provided",
                 "Ensure File Name is provided">>]

\* the effect that checks the props of a render and triggers the download
ConfigEffect(s, render, status) ==
    LET props == PropValues(render)
        s1 == addDebugLogs(s, <<"Checking configuration...",
                                "Props status - " \o status>>)
        awsConfig == [accessKeyId |-> Trim(props.awsAccessKey),
                      secretAccessKey |-> Trim(props.awsSecretKey),
                      region |-> Trim(props.awsRegion),
                      bucketName |-> Trim(props.s3BucketName),
                      fileName |-> Trim(props.fileName)]
    IN  IF status = "available"
            THEN downloadPdfFromS3(
                     addDebugLog(s1, "AWS Config ready - Region: " \o awsConfig.region
                                         \o ", Bucket: " \o awsConfig.bucketName
                                         \o ", File: " \o awsConfig.fileName),
                     render, awsConfig)
        ELSE IF status = "loading"
            THEN [addDebugLog(s1, "Configuration still loading...")
                      EXCEPT !.widget.loadingStatus = "Loading configuration...",
                             !.widget.isLoading = TRUE,
                             !.widget.error = <<>>]
        ELSE [addDebugLog(s1, "Configuration incomplete")
                  EXCEPT !.widget.error = <<IncompleteError>>,
                         !.widget.isLoading = FALSE]

ProgressCap == 90

\* Math.min(progress, 90)
CappedProgress(percent) == IF percent < ProgressCap THEN percent ELSE ProgressCap

\* the onProgress callback that downloadPdfFromS3 passes to downloadFromS3
OnProgress(s, render, percent, status) ==
    LET s1 == [s EXCEPT !.widget.downloadProgress = CappedProgress(percent),
                        !.widget.loadingStatus = status,
                        !.flows[render].progressCalls = @ + 1]
    IN  IF percent % 20 = 0 \/ percent = 100
            THEN addDebugLog(s1, "Download progress: " \o ToString(percent) \o "% - "
                                     \o status)
            ELSE s1

\* new Blob([result.buffer], { type: 'application/pdf' })
Blob(bytes) == [kind |-> "blob", bytes |-> bytes, type |-> "application/pdf"]

\* downloadPdfFromS3 after downloadFromS3 has resolved, up to the await of
\* pdfBlob.arrayBuffer() in validatePdfBlob
DownloadResolved(s, render, result) ==
    LET s1 == addDebugLog(s, "File downloaded - Size: " \o ToString(result.size)
                                 \o " bytes, Type: " \o result.contentType)
        s2 == [s1 EXCEPT !.widget.loadingStatus = "Preparing PDF for display...",
                         !.widget.downloadProgress = 92]
        pdfBlob == Blob(result.buffer)
        s3 == addDebugLog(s2, "Created PDF Blob: " \o ToString(Len(pdfBlob.bytes))
                                  \o " bytes")
    IN  [s3 EXCEPT !.widget.loadingStatus = "Validating PDF...",
                   !.widget.downloadProgress = 95,
                   !.flows[render].pc = "validate",
                   !.flows[render].pdfBlob = pdfBlob]

\* new TextDecoder().decode(uint8Array.slice(0, 4)), for ASCII bytes
Header(bytes) == Str(SubSeq(bytes, 1, IF Len(bytes) < 4 THEN Len(bytes) ELSE 4))

\* header === pdfSignature
HeaderIsPdf(header) == header = "%PDF"

\* URL.createObjectURL(pdfBlob): the n-th blob URL of the page
BlobUrl(n, pdfBlob) == [kind |-> "blobUrl", id |-> n, blob |-> pdfBlob]

\* the cleanup of the effect that depends on pdfUrl, run when pdfUrl changes
PdfUrlCleanup(s, previous) ==
    IF previous # <<>> /\ previous # s.widget.pdfUrl
        THEN addDebugLog([s EXCEPT !.widget.revoked = @ \cup {previous[1].id}],
                         "Cleaned up blob URL on unmount")
        ELSE s

Proceed_FailsOnInvalid(s, render, isValidPdf) ==
    IF isValidPdf
        THEN [s EXCEPT !.widget.isLoading = FALSE, !.flows[render].pc = "done"]
        ELSE [s EXCEPT !.widget.error =
                           <<[message |-> "Failed to load document: invalid PDF",
                              steps |-> <<>>]>>,
                       !.widget.isLoading = FALSE,
                       !.widget.downloadProgress = 0,
                       !.flows[render].pc = "failed"]

\* downloadPdfFromS3 after validatePdfBlob has returned isValidPdf
Proceed(s, render, isValidPdf) ==
    LET pdfBlob == s.flows[render].pdfBlob
        s1 == IF ~isValidPdf
                  THEN addDebugLog(s, "PDF validation failed, but proceeding anyway")
                  ELSE s
        s2 == IF s1.widget.previousBlobUrl # <<>>
                  THEN addDebugLog(
                           [s1 EXCEPT !.widget.revoked =
                                          @ \cup {s1.widget.previousBlobUrl[1].id}],
                           "Revoked previous blob URL")
                  ELSE s1
        pdfBlobUrl == BlobUrl(s2.widget.blobUrls + 1, pdfBlob)
        s3 == addDebugLog([s2 EXCEPT !.widget.blobUrls = @ + 1,
                                     !.widget.previousBlobUrl = <<pdfBlobUrl>>],
                          "New blob URL created: blob:" \o ToString(pdfBlobUrl.id))
        s4 == [s3 EXCEPT !.widget.pdfUrl = <<pdfBlobUrl>>,
                         !.widget.error = <<>>,
                         !.widget.isLoading = FALSE,
                         !.widget.downloadProgress = 100,
                         !.widget.loadingStatus = "Document ready!",
                         !.flows[render].pc = "done"]
    IN  PdfUrlCleanup(addDebugLog(s4, "Document ready for viewing!"), s.widget.pdfUrl)

\* validatePdfBlob after pdfBlob.arrayBuffer() has resolved, and the code
\* of downloadPdfFromS3 that follows
BlobRead(s, render, bytes) ==
    LET header == Header(bytes)
    IN  IF HeaderIsPdf(header)
            THEN Proceed(addDebugLog(s, "PDF validation successful"), render, TRUE)
            ELSE Proceed(addDebugLog(s, "PDF validation failed - Invalid header: "
                                            \o header),
                         render, FALSE)

\* validatePdfBlob after pdfBlob.arrayBuffer() has rejected
BlobReadFailed(s, render, message) ==
    Proceed(addDebugLog(s, "PDF validation error: " \o message), render, FALSE)

\* the error shown for a failed download
UserError(awsConfig, message) ==
    IF Includes(message, "Access denied") \/ Includes(message, "403")
        THEN [message |-> "Access denied to S3 bucket '" \o awsConfig.bucketName \o "'",
              steps |-> <<"Verify IAM permissions for s3:GetObject",
                          "Check bucket policy allows access",
                          "Ensure bucket and file exist",
                          "Verify CORS configuration on S3 bucket">>]
    ELSE IF Includes(message, "not found") \/ Includes(message, "404")
        THEN [message |-> "File '" \o awsConfig.fileName \o "' not found in bucket",
              steps |-> <<"Verify the file exists in the S3 bucket",
                          "Check the file path is correct",
                          "Ensure you're using the right bucket">>]
    ELSE IF Includes(message, "Network") \/ Includes(message, "fetch")
        THEN [message |-> "Network error: Cannot connect to AWS S3",
              steps |-> <<"Check your internet connection",
                          "Verify AWS region is correct",
                          "Try again in a few minutes">>]
    ELSE [message |-> "Failed to load document: " \o message, steps |-> <<>>]

\* downloadPdfFromS3: catch (err) after downloadFromS3 has rejected
DownloadRejected(s, render, message) ==
    LET s1 == addDebugLog(s, "Download failed: " \o message)
    IN  [s1 EXCEPT !.widget.error = <<UserError(s.flows[render].awsConfig, message)>>,
                   !.widget.isLoading = FALSE,
                   !.widget.downloadProgress = 0,
                   !.flows[render].pc = "failed"]

\* the component is mounted and rendered with its first props
Mount(s, status) ==
    ConfigEffect([s EXCEPT !.op = "DocumentSigner", !.pc = "widget",
                           !.widget = MountedWidget,
                           !.flows = <<NoFlow>>],
                 1, status)

\* the component is rendered with changed configuration props
Rerender(s, status) ==
    ConfigEffect([s EXCEPT !.flows = Append(@, NoFlow)], Len(s.flows) + 1, status)

-----------------------------------------------------------------------------
Init ==
    /\ pc = "idle"
    /\ op = "none"
    /\ hasProgress = FALSE
    /\ i = 0
    /\ dlLastError = Null
    /\ request = Undefined
    /\ maxRetries = DefaultMaxRetries
    /\ attempt = 0
    /\ lastError = Undefined
    /\ response = Undefined
    /\ inFlight = {}
    /\ requests = <<>>
    /\ settled = <<>>
    /\ waits = <<>>
    /\ progress = <<>>
    /\ outcome = Pending
    /\ nextErr = 1
    /\ now = 0
    /\ bodyReads = <<>>
    /\ calledKey = <<>>
    /\ signed = <<>>
    /\ widget = Undefined
    /\ flows = <<>>
    /\ calls = <<>>

PlainRequest ==
    [strategy |-> "none", method |-> "GET", url |-> DirectUrl,
     headers |-> ("Accept" :> "application/pdf,*/*")]

\* a caller calls the exported fetchWithRetry(url, options, m)
CallFetchWithRetry ==
    \E m \in (0 - NegRetriesBound)..MaxRetriesBound :
        /\ pc = "idle"
        /\ Assign(fetchWithRetry([S EXCEPT !.op = "fetchWithRetry"], PlainRequest, m))

\* the calls of downloadFromS3 that are explored: the plain key with or
\* without onProgress, the key with a parent segment without it
DownloadCalls ==
    {call \in [flag : BOOLEAN, key : DownloadKeys] : call.key = ObjectKey \/ ~call.flag}

\* a caller calls downloadFromS3, with or without onProgress
CallDownloadFromS3 ==
    \E call \in DownloadCalls :
        /\ pc = "idle"
        /\ Assign(downloadFromS3(S, call.flag, call.key))

\* the pending fetch resolves with a response
FetchResolve ==
    \E resp \in Responses, rid \in inFlight :
        /\ pc = "fetch"
        /\ Assign(FetchReturns(Settle(S, rid, resp), resp))

\* the pending fetch rejects with a transport error
FetchReject ==
    \E msg \in TransportMessages, rid \in inFlight :
        /\ pc = "fetch"
        /\ LET error == Error(nextErr, msg)
           IN  Assign(AttemptFailed([Settle(S, rid, error) EXCEPT !.nextErr = @ + 1], error))

\* the backoff timer of fetchWithRetry fires
TimerFire ==
    /\ pc = "backoff"
    /\ Assign(BackoffOver(S))

\* response.arrayBuffer() resolves with the body
BodyResolve ==
    \E arrayBuffer \in Bodies :
        /\ pc = "body"
        /\ Assign(StrategyGotBody(ReadBody(S, [kind |-> "bytes", bytes |-> arrayBuffer]),
                                  arrayBuffer))

\* response.arrayBuffer() rejects
BodyReject ==
    \E msg \in BodyMessages :
        /\ pc = "body"
        /\ LET error == Error(nextErr, msg)
           IN  Assign(StrategyBodyFailed([ReadBody(S, error) EXCEPT !.nextErr = @ + 1], error))

\* a caller calls downloadFromS3 twice without awaiting the first call
CallConcurrently ==
    /\ pc = "idle"
    /\ Assign(CallTwice(S, TRUE))

\* the await of one of the two calls ends
PairSettle ==
    \E c \in Callers, in \in PairInputs :
        /\ pc = "concurrent"
        /\ Awaits(calls[c].state, in)
        /\ Assign(Deliver(S, c, in))

\* a caller calls testS3Connection(config, bucketName)
CallTestS3Connection ==
    /\ pc = "idle"
    /\ Assign(testS3Connection(S))

\* the pending HEAD request of a probe resolves with a response
ProbeResolve ==
    \E resp \in Responses, rid \in inFlight :
        /\ pc \in {"probe1", "probe2"}
        /\ Assign(ProbeGotResponse(Settle(S, rid, resp), resp))

\* the pending HEAD request of a probe rejects with a transport error
ProbeReject ==
    \E msg \in TransportMessages, rid \in inFlight :
        /\ pc \in {"probe1", "probe2"}
        /\ LET error == Error(nextErr, msg)
           IN  Assign(ProbeFailed([Settle(S, rid, error) EXCEPT !.nextErr = @ + 1], error))

\* a caller calls encodeS3Key(key)
CallEncodeS3Key ==
    \E key \in Keys :
        /\ pc = "idle"
        /\ Assign(CallOfEncodeS3Key(S, key))

\* a caller calls createPresignedUrl(config, bucketName, fileName, expirationSeconds)
CallCreatePresignedUrl ==
    \E config \in Configs, key \in SignKeys, expirationSeconds \in Expirations :
        /\ pc \in {"idle", "signing"}
        /\ Len(signed) < MaxSignCalls
        /\ Assign(CallOfSigner(S, "createPresignedUrl", config, key, expirationSeconds,
                               createPresignedUrl(config, BucketName, key,
                                                  expirationSeconds, now)))

\* a caller calls createSignedHeaders(config, bucketName, fileName)
CallCreateSignedHeaders ==
    \E config \in Configs, key \in SignKeys :
        /\ pc \in {"idle", "signing"}
        /\ Len(signed) < MaxSignCalls
        /\ Assign(CallOfSigner(S, "createSignedHeaders", config, key, 0,
                               createSignedHeaders(config, BucketName, key, now)))

\* time passes between two calls of a signer
Tick ==
    \E d \in ClockSteps :
        /\ pc = "signing"
        /\ now + d <= MaxClock
        /\ Assign([S EXCEPT !.now = @ + d])

\* a DocumentSigner component is mounted with its first props
MountWidget ==
    \E status \in PropStatuses :
        /\ pc = "idle"
        /\ Assign(Mount(S, status))

\* the configuration props change
PropsChange ==
    \E status \in PropStatuses :
        /\ pc = "widget"
        /\ Len(flows) + 1 \in Renders
        /\ Assign(Rerender(S, status))

\* downloadFromS3 calls the onProgress callback of a download of the widget
WidgetProgress ==
    \E render \in DOMAIN flows, call \in ProgressCalls :
        /\ pc = "widget"
        /\ flows[render].pc = "download"
        /\ flows[render].progressCalls < MaxProgressCalls
        /\ Assign(OnProgress(S, render, call[1], call[2]))

\* the downloadFromS3 call of a download of the widget resolves
WidgetDownloadResolve ==
    \E render \in DOMAIN flows, bytes \in WidgetBodies :
        /\ pc = "widget"
        /\ flows[render].pc = "download"
        /\ Assign(DownloadResolved(S, render,
                                   [kind |-> "result", buffer |-> bytes,
                                    contentType |-> "application/pdf",
                                    size |-> Len(bytes), presignedUrl |-> DirectUrl]))

\* the downloadFromS3 call of a download of the widget rejects
WidgetDownloadReject ==
    \E render \in DOMAIN flows, message \in WidgetErrors :
        /\ pc = "widget"
        /\ flows[render].pc = "download"
        /\ Assign(DownloadRejected(S, render, message))

\* pdfBlob.arrayBuffer() resolves with the bytes of the blob
BlobResolve ==
    \E render \in DOMAIN flows :
        /\ pc = "widget"
        /\ flows[render].pc = "validate"
        /\ Assign(BlobRead(S, render, flows[render].pdfBlob.bytes))

\* pdfBlob.arrayBuffer() rejects
BlobReject ==
    \E render \in DOMAIN flows, message \in BodyMessages :
        /\ pc = "widget"
        /\ flows[render].pc = "validate"
        /\ Assign(BlobReadFailed(S, render, message))

Next ==
    \/ CallEncodeS3Key
    \/ MountWidget
    \/ PropsChange
    \/ WidgetProgress
    \/ WidgetDownloadResolve
    \/ WidgetDownloadReject
    \/ BlobResolve
    \/ BlobReject
    \/ CallCreatePresignedUrl
    \/ CallCreateSignedHeaders
    \/ Tick
    \/ CallFetchWithRetry
    \/ CallDownloadFromS3
    \/ CallConcurrently
    \/ PairSettle
    \/ CallTestS3Connection
    \/ ProbeResolve
    \/ ProbeReject
    \/ FetchResolve
    \/ FetchReject
    \/ TimerFire
    \/ BodyResolve
    \/ BodyReject

Spec == Init /\ [][Next]_vars

\* what the runtime and the network do for a call: a pending fetch, body
\* read or timer settles
Settles ==
    \/ FetchResolve
    \/ FetchReject
    \/ TimerFire
    \/ BodyResolve
    \/ BodyReject
    \/ ProbeResolve
    \/ ProbeReject

\* every pending fetch, body read and timer eventually settles
LiveSpec == Spec /\ WF_vars(Settles)

-----------------------------------------------------------------------------
(* Vocabulary of the properties *)

IsDownload == op = "downloadFromS3"
IsFetch == op = "fetchWithRetry"
Thrown == pc = "done" /\ outcome.state = "thrown"
Returned == pc = "done" /\ outcome.state = "returned"

Max(set) == CHOOSE x \in set : \A y \in set : y <= x

IsResp(v) == v.kind = "response"
IsErr(v) == v.kind = "error"
HasAuth(req) == "Authorization" \in DOMAIN req.headers

\* the fetch calls of a strategy that have settled
SettledOf(name) == {k \in 1..Len(settled) : requests[k].strategy = name}
IssuedOf(name) == {k \in 1..Len(requests) : requests[k].strategy = name}

\* the errors created so far are numbered 1..nextErr-1; those created up to
\* and including the settling of fetch call k:
ErrorsUpTo(k) ==
    Cardinality({j \in 1..k : IsErr(settled[j])})
      + Cardinality({j \in 1..k : IsResp(settled[j]) /\ ~Ok(settled[j].status)})

\* every attempt of the presigned strategy was rejected by the transport
PresignedTransportFailed ==
    /\ IsDownload
    /\ Cardinality(SettledOf("presigned")) = DefaultMaxRetries
    /\ \A k \in SettledOf("presigned") : IsErr(settled[k])

\* both strategies ran and the call threw
Exhausted == IsDownload /\ Thrown /\ IssuedOf("direct") # {}

-----------------------------------------------------------------------------
\* C1: when the presigned strategy fails on a response of status 403, no
\* header-signed request (none with an Authorization header) is ever issued,
\* and the call throws the very Error object the presigned strategy raised.
C1_AuthShortCircuit ==
    \A k \in SettledOf("presigned") :
        (IsDownload /\ IsResp(settled[k]) /\ settled[k].status = 403) =>
            /\ \A j \in 1..Len(requests) :
                   ~HasAuth(requests[j]) /\ requests[j].strategy = "presigned"
            /\ Thrown
            /\ outcome.value = Error(ErrorsUpTo(k), HttpErrorMessage("presigned", settled[k]))
            /\ outcome.value = dlLastError

C1_Witness ==
    /\ IsDownload /\ Thrown
    /\ Len(settled) = 2
    /\ IsErr(settled[1])
    /\ IsResp(settled[2]) /\ settled[2].status = 403 /\ settled[2].statusText = "Forbidden"
    /\ outcome.value.id = 2

\* C2: whenever transport errors make the presigned strategy fail, whatever
\* their messages, a header-signed request is issued next, and a call that
\* then returns on a success response returns the header-signed result.
C2_TransportFallback ==
    PresignedTransportFailed =>
        /\ Len(requests) > DefaultMaxRetries
        /\ requests[DefaultMaxRetries + 1].strategy = "direct"
        /\ HasAuth(requests[DefaultMaxRetries + 1])
        /\ Returned => outcome.value.presignedUrl = DirectUrlOf(calledKey)

\* C3: the strategies run one after another, presigned first: a
\* header-signed request is issued only when every presigned request has
\* settled and the presigned strategy has failed, and at most one request of
\* the call is in flight.
C3_Sequential ==
    IsDownload =>
        /\ Cardinality(inFlight) <= 1
        /\ inFlight \subseteq {Len(requests)}
        /\ Len(settled) = Len(requests) - Cardinality(inFlight)
        /\ requests[1].strategy = "presigned"
        /\ \A j, k \in 1..Len(requests) :
               (j < k /\ requests[j].strategy = "direct") => requests[k].strategy = "direct"
        /\ \A k \in IssuedOf("direct") :
               /\ IssuedOf("presigned") # {}
               /\ \A j \in IssuedOf("presigned") : j < k /\ j \notin inFlight
               /\ dlLastError # Null
               /\ i = 1 \/ pc = "done"

C3_Witness ==
    /\ IsDownload /\ pc = "fetch"
    /\ Cardinality(IssuedOf("presigned")) = DefaultMaxRetries
    /\ Cardinality(IssuedOf("direct")) = 2
    /\ inFlight = {Len(requests)}

\* C4: a presigned response of any non-success status other than 403 is not
\* treated as an authorization failure: a header-signed request follows.
C4_OtherStatusFallsBack ==
    \A k \in SettledOf("presigned") :
        (IsDownload /\ IsResp(settled[k]) /\ ~Ok(settled[k].status) /\ settled[k].status # 403) =>
            /\ Len(requests) > k
            /\ requests[k + 1].strategy = "direct"

\* C5: when both strategies have failed the call throws the last recorded
\* error, which is the header-signed strategy's error and not the presigned
\* one's; the generic error is thrown only if no error was recorded.
C5_LastErrorThrown ==
    Exhausted =>
        LET last == settled[Len(settled)]
        IN  /\ outcome.value = dlLastError
            /\ outcome.value.id = nextErr - 1
            /\ outcome.value.id > ErrorsUpTo(Max(SettledOf("presigned")))
            /\ IsErr(last) => outcome.value = last
            /\ (IsResp(last) /\ ~Ok(last.status)) =>
                   outcome.value.message = HttpErrorMessage("direct", last)
            /\ (IsResp(last) /\ Ok(last.status)) => outcome.value.message \in BodyMessages
            /\ outcome.value.message = GenericMessage => dlLastError = Null

C5_Witness ==
    /\ Exhausted
    /\ ~IsCredentialIssue(outcome.value.message)
    /\ ~IsCredentialIssue(HttpErrorMessage("presigned", settled[1]))
    /\ IsResp(settled[1]) /\ settled[1].status = 404
    /\ IsResp(settled[2]) /\ settled[2].status = 500

\* the thrown value counts the methods tried: in a field or as "N of M" text
CarriesCount(e) ==
    \/ "methodsAttempted" \in DOMAIN e
    \/ \E n \in 0..Len(Strategies) :
           Includes(e.message, ToString(n) \o " of " \o ToString(Len(Strategies)))

\* C6 as stated: when all strategies have failed, the error delivered
\* carries a count of the methods tried (N of M).
C6_Original == Exhausted => CarriesCount(outcome.value)

\* C6 (amended): when all strategies have failed, the error delivered is the
\* last concrete error as the failing strategy raised it, a plain Error with
\* its message, and it carries no count of the methods tried.
C6_PlainLastError ==
    Exhausted =>
        /\ outcome.value = dlLastError
        /\ DOMAIN outcome.value = {"kind", "id", "message"}
        /\ ~CarriesCount(outcome.value)

C6_Witness ==
    /\ Exhausted
    /\ Len(settled) = 2 * DefaultMaxRetries
    /\ \A k \in 1..Len(settled) : IsErr(settled[k]) /\ settled[k].message = "Failed to fetch"
    /\ outcome.value = settled[Len(settled)]

C8_NoRetryOnStatus ==
    \A k \in 1..Len(settled) :
        IsResp(settled[k]) =>
            /\ \A j \in (k + 1)..Len(requests) : requests[j].strategy # requests[k].strategy
            /\ IsFetch => /\ Returned
                          /\ outcome.value = settled[k]
                          /\ Len(requests) = k
                          /\ Len(waits) = k - 1
            /\ IsDownload =>
                   /\ k = Len(settled) => pc \in {"fetch", "body", "done"}
                   /\ (k = Len(settled) /\ pc = "fetch") => request.strategy # requests[k].strategy
                   /\ pc = "body" => (k = Len(settled) => response = settled[k])

C8_Witness ==
    /\ IsFetch /\ Returned
    /\ Len(settled) = 2
    /\ IsErr(settled[1])
    /\ IsResp(settled[2]) /\ settled[2].status = 500
    /\ outcome.value = settled[2]

\* C9 as stated: whenever fetchWithRetry throws, for every maxAttempts
\* (0 and negative values included), the value thrown is the transport error
\* of the last fetch attempt made, never an undefined value.
C9_Original ==
    (IsFetch /\ Thrown) =>
        /\ outcome.value # Undefined
        /\ Len(settled) >= 1
        /\ outcome.value = settled[Len(settled)]

\* C9 (amended): whenever fetchWithRetry throws after a call with
\* maxAttempts >= 1, the value thrown is the transport error of the last
\* fetch attempt made, not an earlier attempt's; called with maxAttempts <= 0
\* it makes no attempt and throws undefined.
C9_LastTransportError ==
    (IsFetch /\ Thrown) =>
        IF maxRetries >= 1
            THEN /\ Len(settled) = maxRetries
                 /\ IsErr(outcome.value)
                 /\ outcome.value = settled[Len(settled)]
                 /\ \A k \in 1..(Len(settled) - 1) : outcome.value # settled[k]
            ELSE /\ outcome.value = Undefined
                 /\ requests = <<>>

C9_Witness ==
    /\ IsFetch /\ Thrown
    /\ maxRetries = 2
    /\ settled[1].message = "Failed to fetch"
    /\ settled[2].message = "connect ETIMEDOUT 10.0.0.5:8403"
    /\ outcome.value = settled[2]

\* C10: within one downloadFromS3 call the percentages passed to onProgress
\* never decrease, whatever the outcome, fallback to the header-signed
\* strategy included.
C10_MonotonicProgress ==
    IsDownload =>
        \A j, k \in 1..Len(progress) :
            j < k => progress[j].percent <= progress[k].percent

-----------------------------------------------------------------------------
\* the fetch calls of a downloadFromS3 call that got a success response
OkResponses ==
    {k \in 1..Len(settled) : IsDownload /\ IsResp(settled[k]) /\ Ok(settled[k].status)}

\* the body of every success response is read, in order: the position in
\* bodyReads of the body read of fetch call k
BodyIndex(k) == Cardinality({j \in OkResponses : j <= k})
BodySettled(k) == BodyIndex(k) <= Len(bodyReads)
BodyOf(k) == bodyReads[BodyIndex(k)]

\* C11 as stated: once a strategy has received a success response no later
\* strategy is attempted, even if reading the body then fails.
C11_Original ==
    \A k \in OkResponses : Len(requests) = k

\* C11 (amended): once a strategy has received a success response and its
\* body has been read, the call returns that strategy's result and no later
\* strategy is attempted; a body read that fails makes the strategy fail
\* like any other failure, so that the next strategy is attempted unless
\* the message is a credential issue or no strategy is left.
C11_StopsAfterBody ==
    \A k \in OkResponses :
        /\ (BodySettled(k) /\ BodyOf(k).kind = "bytes") =>
               /\ Returned
               /\ Len(requests) = k
               /\ outcome.value.buffer = BodyOf(k).bytes
               /\ outcome.value.presignedUrl = requests[k].url
        /\ Len(requests) > k =>
               /\ BodySettled(k) /\ IsErr(BodyOf(k))
               /\ requests[k].strategy = "presigned"
               /\ requests[k + 1].strategy = "direct"
        /\ (BodySettled(k) /\ IsErr(BodyOf(k))) =>
               \/ Len(requests) > k
               \/ Thrown /\ outcome.value = BodyOf(k)
                         /\ (requests[k].strategy = "direct"
                                \/ IsCredentialIssue(BodyOf(k).message))

C11_Witness ==
    /\ IsDownload /\ Returned
    /\ OkResponses = {1, 2}
    /\ IsErr(bodyReads[1])
    /\ bodyReads[2].kind = "bytes"
    /\ requests[2].strategy = "direct"

\* C12 as stated: every result has size equal to the byte length of buffer,
\* contentType equal to the Content-Type header of the successful response
\* when it is present and 'application/pdf' when absent, and presignedUrl
\* equal to the URL the successful strategy requested.
C12_Original ==
    (IsDownload /\ Returned) =>
        LET resp == settled[Len(settled)]
        IN  /\ outcome.value.size = Len(outcome.value.buffer)
            /\ outcome.value.contentType =
                   IF resp.contentType # <<>> THEN resp.contentType[1] ELSE "application/pdf"
            /\ outcome.value.presignedUrl = requests[Len(requests)].url

\* C12 (amended): every result has size equal to the byte length of buffer,
\* contentType equal to the Content-Type header of the successful response
\* when it is present and not empty and 'application/pdf' when it is absent
\* or empty, and presignedUrl equal to the URL the successful strategy
\* requested.
C12_ResultFields ==
    (IsDownload /\ Returned) =>
        LET resp == settled[Len(settled)]
        IN  /\ IsResp(resp) /\ Ok(resp.status)
            /\ outcome.value.size = Len(outcome.value.buffer)
            /\ outcome.value.buffer = bodyReads[Len(bodyReads)].bytes
            /\ outcome.value.contentType =
                   IF resp.contentType \in {<<>>, <<"">>} THEN "application/pdf"
                                                          ELSE resp.contentType[1]
            /\ outcome.value.presignedUrl = requests[Len(requests)].url
            /\ requests[Len(requests)].strategy = "direct" => outcome.value.presignedUrl = DirectUrlOf(calledKey)

C12_Witness ==
    /\ IsDownload /\ Returned
    /\ requests[Len(requests)].strategy = "direct"
    /\ outcome.value.contentType = "text/html"
    /\ outcome.value.size = 1

\* C13: if every fetch call, body read and backoff timer eventually settles,
\* every downloadFromS3 call eventually returns a result or throws.
C13_Terminates ==
    IsDownload ~> (pc = "done" /\ outcome.state \in {"returned", "thrown"})

C13_Witness ==
    /\ IsDownload /\ Thrown
    /\ Len(requests) = 2 * DefaultMaxRetries
    /\ Len(waits) = 2 * (DefaultMaxRetries - 1)

-----------------------------------------------------------------------------
IsTest == op = "testS3Connection"

\* probe n has settled, and what it settled with
ProbeSettled(n) == IsTest /\ Len(settled) >= n
ProbeStatus(n, statuses) == IsResp(settled[n]) /\ settled[n].status \in statuses

\* the probe counts as failed
Probe1Failed == ProbeSettled(1) /\ ~ProbeStatus(1, {200, 404})
Probe2Failed == ProbeSettled(2) /\ ~ProbeStatus(2, {200, 403})

\* C14: testS3Connection never throws: for every combination of probe
\* outcomes, once no probe is pending it has returned an object with a
\* boolean success flag and a message.
C14_NeverThrows ==
    IsTest =>
        /\ outcome.state # "thrown"
        /\ inFlight = {} =>
               /\ Returned
               /\ outcome.value.success \in BOOLEAN
               /\ Len(outcome.value.message) > 0
        /\ inFlight # {} => pc \in {"probe1", "probe2"} /\ outcome = Pending

C14_Witness ==
    /\ IsTest /\ Returned
    /\ Len(settled) = 2
    /\ IsErr(settled[1]) /\ IsErr(settled[2])

\* C15: when the presigned HEAD probe answers 200 or 404 the result has
\* success = true and the second probe is never issued.
C15_FirstProbeWins ==
    (ProbeSettled(1) /\ ProbeStatus(1, {200, 404})) =>
        /\ Returned
        /\ outcome.value.success = TRUE
        /\ Len(requests) = 1
        /\ requests[1].url = TestUrl(0)

C15_Witness ==
    /\ IsTest /\ Returned
    /\ ProbeStatus(1, {404})
    /\ outcome.value.success

\* C16: when the presigned HEAD probe answers 403 or fails with a transport
\* error, the second probe, an unsigned HEAD on the bucket root, is issued
\* next.
C16_SecondProbeIssued ==
    (ProbeSettled(1) /\ (IsErr(settled[1]) \/ ProbeStatus(1, {403}))) =>
        /\ Len(requests) = 2
        /\ requests[2].method = "HEAD"
        /\ requests[2].url = BucketUrl
        /\ requests[2].url.query = <<>>
        /\ ~HasAuth(requests[2])
        /\ Len(settled) = 1 => pc = "probe2" /\ inFlight = {2}

C16_Witness ==
    /\ IsTest /\ pc = "probe2"
    /\ IsErr(settled[1])
    /\ inFlight = {2}

\* C17: when the second probe is reached and answers 200 or 403 the result
\* has success = true.
C17_SecondProbeWins ==
    (ProbeSettled(2) /\ ProbeStatus(2, {200, 403})) =>
        /\ Returned
        /\ outcome.value.success = TRUE

C17_Witness ==
    /\ IsTest /\ Returned
    /\ ProbeStatus(1, {500}) /\ ProbeStatus(2, {200})
    /\ outcome.value.success

BothProbes403 == ProbeSettled(2) /\ ProbeStatus(1, {403}) /\ ProbeStatus(2, {403})

\* C18 as stated: when both probes answer 403 the result has success = false.
C18_Original ==
    BothProbes403 => Returned /\ outcome.value.success = FALSE

\* C18 (amended): when both probes answer 403 the result has success = true,
\* with the message of the second probe, 'AWS setup valid (direct access)'.
C18_Both403Succeeds ==
    BothProbes403 =>
        Returned /\ outcome.value = TestResult(TRUE, "AWS setup valid (direct access)")

C18_Witness == BothProbes403 /\ Returned /\ nextErr = 1

\* C19 as stated: when both probes fail the returned value is
\* {success: false} with the message 'all connection test methods failed'.
C19_Original ==
    (Probe1Failed /\ Probe2Failed) =>
        /\ Returned
        /\ outcome.value.success = FALSE
        /\ outcome.value.message = "all connection test methods failed"

\* C19 (amended): when both probes fail the returned value is
\* {success: false} with the message
\* 'Connection test failed: All connection test methods failed'.
C19_FailureMessage ==
    (Probe1Failed /\ Probe2Failed) =>
        /\ Returned
        /\ outcome.value.success = FALSE
        /\ outcome.value.message =
               "Connection test failed: All connection test methods failed"

C19_Witness ==
    /\ Probe1Failed /\ Probe2Failed /\ Returned
    /\ ProbeStatus(1, {403}) /\ ProbeStatus(2, {404})

-----------------------------------------------------------------------------
IsEncode == op = "encodeS3Key"

\* C20: encodeS3Key is idempotent on its own output: for every key k,
\* encodeS3Key(encodeS3Key(k)) = encodeS3Key(k) and
\* encodeS3Key(decode(encodeS3Key(k))) = encodeS3Key(k).
C20_Idempotent ==
    (IsEncode /\ Returned) =>
        LET e == outcome.value
            d == decodeURIComponent(e.value)
        IN  /\ encodeS3Key(e.value) = e
            /\ d # URIError
            /\ encodeS3Key(d.value) = e

\* the number of '/'-delimited segments of a string
Segments(str) == Len(Split(str, 47))

\* C21: for every key k (keys that contain percent escapes such as %2F
\* included), encodeS3Key(k) has as many '/'-delimited segments as k.
C21_SegmentPreservation ==
    (IsEncode /\ Returned) => Segments(outcome.value.value) = Segments(calledKey)

\* 'folder/My%20File%20%28final%29.pdf'
ExampleEncoded ==
    <<102, 111, 108, 100, 101, 114, 47, 77, 121, 37, 50, 48, 70, 105, 108, 101,
      37, 50, 48, 37, 50, 56, 102, 105, 110, 97, 108, 37, 50, 57, 46, 112, 100, 102>>

IsAlnum(c) == c \in 48..57 \/ c \in 65..90 \/ c \in 97..122

\* what the claim says a character of a key becomes
Escaped(c) == IF c \in SpecialChars THEN <<37, HexDigit(c \div 16), HexDigit(c % 16)>>
                                    ELSE <<c>>

RECURSIVE EscapedAll(_)
EscapedAll(str) == IF str = <<>> THEN <<>> ELSE Escaped(Head(str)) \o EscapedAll(Tail(str))

\* C22: the output of encodeS3Key contains none of the characters space
\* ! ' ( ) * [ ] { } # ? & = + in literal form: each is replaced by its
\* upper-case percent escape (a space by %20, never by '+'), '/' stays, and
\* 'folder/My File (final).pdf' becomes 'folder/My%20File%20%28final%29.pdf'.
C22_SpecialsEscaped ==
    (IsEncode /\ Returned) =>
        LET e == outcome.value.value
        IN  /\ \A k \in 1..Len(e) : e[k] \notin SpecialChars
            /\ (\A k \in 1..Len(calledKey) :
                    calledKey[k] \in SpecialChars \cup {46, 47} \/ IsAlnum(calledKey[k]))
                   => e = EscapedAll(calledKey)
            /\ calledKey = ExampleKey => e = ExampleEncoded

C22_Witness ==
    /\ IsEncode /\ Returned
    /\ calledKey = ExampleKey
    /\ outcome.value.value = ExampleEncoded

\* the percent-encoded form of a raw key: each segment encoded, no decoding
PercentEncoded(raw) ==
    LET parts == Split(raw, 47)
    IN  Join([n \in 1..Len(parts) |-> EscapeMore(encodeURIComponent(parts[n]))], 47)

\* C23: encodeS3Key never throws: for every key it returns a string, and for
\* a key with a malformed percent escape the string is the encoding of the
\* raw key.
C23_NeverThrows ==
    (IsEncode /\ pc = "done") =>
        /\ outcome.state = "returned"
        /\ outcome.value.kind = "string"
        /\ decodeURIComponent(calledKey) = URIError
               => outcome.value.value = PercentEncoded(calledKey)

HasSurrogate(str) == \E k \in 1..Len(str) : IsSurrogate(str[k])

\* C29: for every raw key r (raw keys that contain text shaped like a
\* percent escape included), encodeS3Key(r) = encodeS3Key(p), where p is the
\* percent-encoded form of r, and the result denotes the object named r
\* (it decodes to r).
C29_RawAndEncodedAlike ==
    (IsEncode /\ Returned /\ ~HasSurrogate(calledKey)) =>
        /\ encodeS3Key(PercentEncoded(calledKey)) = outcome.value
        /\ decodeURIComponent(outcome.value.value) = StringValue(calledKey)

-----------------------------------------------------------------------------
(* Vocabulary of the signing properties *)

\* the signature carried by a URL (its last parameter) / by a header map
UrlSignature(url) == url.query[Len(url.query)][2]
HeadersSignature(headers) == headers["Authorization"].signature

IsSignedUrl(url) ==
    Len(url.query) > 0 /\ url.query[Len(url.query)][1] = "X-Amz-Signature"

\* the calls of the signers that returned
SignCalls == {n \in 1..Len(signed) : signed[n].result # URIError}

SignatureOf(call) ==
    IF call.fn = "createPresignedUrl" THEN UrlSignature(call.result)
                                      ELSE HeadersSignature(call.result)

SignedState == pc = "signing" /\ signed # <<>>

\* the text of a URL; the signature is hexadecimal text, shown as a mark,
\* and holds none of the credentials, each of which has a character that is
\* no hexadecimal digit
UrlText(url) ==
    url.origin \o url.path
        \o (IF url.query = <<>> THEN ""
            ELSE "?" \o JoinStrings([n \in 1..Len(url.query) |->
                            url.query[n][1] \o "="
                                \o (IF url.query[n][1] = "X-Amz-Signature"
                                        THEN "<hex>" ELSE url.query[n][2])], "&"))

\* the texts of a header map returned by createSignedHeaders
HeaderTexts(headers) ==
    {headers["Authorization"].text, headers["X-Amz-Date"], headers["X-Amz-Content-Sha256"]}

IsSigner == op \in {"createPresignedUrl", "createSignedHeaders"}

\* the credentials the call was made with
CallConfig == IF IsSigner THEN signed[Len(signed)].config ELSE DefaultConfig

HasOutcome == outcome.state \in {"returned", "thrown"}

\* the texts of the value that the call returned, or the message of the
\* error that it threw
OutcomeTexts ==
    IF ~HasOutcome THEN {}
    ELSE IF outcome.state = "thrown" THEN {outcome.value.message}
    ELSE IF op = "downloadFromS3"
        THEN {UrlText(outcome.value.presignedUrl), outcome.value.contentType}
    ELSE IF op = "testS3Connection" THEN {outcome.value.message}
    ELSE IF op = "createPresignedUrl" THEN {UrlText(outcome.value)}
    ELSE IF op = "createSignedHeaders" THEN HeaderTexts(outcome.value)
    ELSE {}

\* the texts passed to onProgress
ProgressTexts ==
    UNION {{progress[n].message}
               \cup (IF progress[n].url = Null THEN {} ELSE {UrlText(progress[n].url)}) :
           n \in 1..Len(progress)}

\* the calls the claims about credentials speak of
UsesCredentials ==
    op \in {"downloadFromS3", "testS3Connection", "createPresignedUrl", "createSignedHeaders"}

Leaks(texts, needle) == \E text \in texts : Includes(text, needle)

IsSignedRequest(req) == IsSignedUrl(req.url) \/ HasAuth(req)

RequestSignature(req) ==
    IF IsSignedUrl(req.url) THEN UrlSignature(req.url) ELSE HeadersSignature(req.headers)

\* C25: every signed request sent by downloadFromS3 carries a signing
\* context made for that request alone: no signed URL and no Authorization
\* header is sent more than once, neither across strategies nor across the
\* attempts of fetchWithRetry.
C25_FreshSigning ==
    IsDownload =>
        \A j, k \in 1..Len(requests) :
            (j < k /\ IsSignedRequest(requests[j]) /\ IsSignedRequest(requests[k]))
                => RequestSignature(requests[j]) # RequestSignature(requests[k])

\* two calls of the same signer with the same arguments at the same clock
\* value
SameCall(a, b) ==
    /\ a.fn = b.fn
    /\ a.config = b.config
    /\ a.bucketName = b.bucketName
    /\ a.fileName = b.fileName
    /\ a.expirationSeconds = b.expirationSeconds
    /\ a.clock = b.clock

EmitsScope(call, d, r) ==
    LET credential == call.config.accessKey \o "/" \o d \o "/" \o r \o "/s3/aws4_request"
    IN  IF call.fn = "createPresignedUrl"
            THEN call.result.query[2] = <<"X-Amz-Credential", FormEncode(credential)>>
            ELSE Includes(call.result["Authorization"].text,
                          " Credential=" \o credential \o ", ")

\* C30: the signing key is the four-stage chain
\* HMAC(HMAC(HMAC(HMAC('AWS4'+secretKey, dateStamp), region), service),
\* 'aws4_request'), each stage keyed with the raw output of the stage
\* before, and both signers use it with service 's3' and with the dateStamp
\* and region of the credential scope they emit.
C30_SigningKeyChain ==
    \A n \in SignCalls :
        LET call == signed[n]
            d == getAmzDateStrings(call.clock).dateStamp
            r == call.config.region
            kDate == HmacSHA256(d, "AWS4" \o call.config.secretKey)
            kSigning ==
                HmacSHA256("aws4_request", HmacSHA256("s3", HmacSHA256(r, kDate)))
        IN  /\ SignatureOf(call).words.key = kSigning
            /\ EmitsScope(call, d, r)
            /\ SignatureOf(call).words.message[3] = d \o "/" \o r \o "/s3/aws4_request"

C30_Witness ==
    /\ Len(signed) = 2
    /\ signed[1].fn = "createPresignedUrl"
    /\ signed[2].fn = "createSignedHeaders"
    /\ signed[1].config # signed[2].config
    /\ getAmzDateStrings(signed[1].clock).dateStamp = "20240101"
    /\ getAmzDateStrings(signed[2].clock).dateStamp = "20240102"
    /\ SignatureOf(signed[2]).words.key.key.message = "s3"
-----------------------------------------------------------------------------
(* Vocabulary of the properties of the widget *)

IsWidget == op = "DocumentSigner"

\* the log entries the step has added
NewLogs == SubSeq(widget'.debugInfo, Len(widget.debugInfo) + 1, Len(widget'.debugInfo))

Logged(logs, message) == \E n \in 1..Len(logs) : logs[n] = message

\* the step ends the validation of the download of a render
ValidationEnds(render) ==
    /\ pc = "widget"
    /\ flows[render].pc = "validate"
    /\ flows'[render].pc # "validate"

\* the component shows the document url
Ready(w, url) ==
    /\ w.pdfUrl = <<url>>
    /\ w.error = <<>>
    /\ ~w.isLoading
    /\ w.downloadProgress = 100
    /\ w.loadingStatus = "Document ready!"

\* C28: in downloadPdfFromS3 a downloaded body that fails the PDF header
\* check ('%PDF') is only logged as a warning: the flow reaches the ready
\* state, with the document URL set and no error, as for a body that passes.
C28_InvalidPdfOnlyWarns ==
    [][\A render \in DOMAIN flows :
           ValidationEnds(render) =>
               /\ flows'[render].pc = "done"
               /\ Ready(widget', BlobUrl(widget'.blobUrls, flows[render].pdfBlob))
               /\ widget'.blobUrls = widget.blobUrls + 1
               /\ Header(flows[render].pdfBlob.bytes) # "%PDF" =>
                      Logged(NewLogs, "PDF validation failed, but proceeding anyway")]_vars

C28_Witness ==
    /\ IsWidget
    /\ Len(flows) = 1
    /\ flows[1].pc = "done"
    /\ flows[1].pdfBlob.bytes = HtmlBody
    /\ Ready(widget, BlobUrl(1, Blob(HtmlBody)))
    /\ Logged(widget.debugInfo, "PDF validation failed - Invalid header: <htm")
    /\ Logged(widget.debugInfo, "PDF validation failed, but proceeding anyway")

-----------------------------------------------------------------------------
(* Concurrent calls *)

\* what a call shows: its requests, its progress events, its result or error
Observed(s) ==
    [requests |-> s.requests, progress |-> s.progress, outcome |-> s.outcome]

-----------------------------------------------------------------------------
(* What a signature covers *)

\* the lines of a text
Newlines(text) == {k \in 1..Len(text) : SubSeq(text, k, k) = "\n"}
Line(text, n) ==
    LET ends   == Newlines(text) \cup {Len(text) + 1}
        starts == {0} \cup Newlines(text)
        Nth(set, m) == CHOOSE x \in set : Cardinality({y \in set : y < x}) = m - 1
    IN  SubSeq(text, Nth(starts, n) + 1, Nth(ends, n) - 1)

\* the canonical request whose hash is the last line of the string to sign
SignedCanonicalRequest(signature) == signature.words.message[4].words.message

\* the name=value pairs of the first n parameters of a query string
QueryText(query, n) ==
    JoinStrings([k \in 1..n |-> query[k][1] \o "=" \o query[k][2]], "&")

PresignedNames ==
    <<"X-Amz-Algorithm", "X-Amz-Credential", "X-Amz-Date", "X-Amz-Expires",
      "X-Amz-SignedHeaders", "X-Amz-Signature">>

\* url is the presigned URL of bucketName and key for ttl seconds
PresignedShape(url, config, bucketName, key, ttl) ==
    /\ url.origin = "https://" \o bucketName \o ".s3." \o config.region \o ".amazonaws.com"
    /\ url.path = "/" \o Str(encodeS3Key(key).value)
    /\ [n \in 1..Len(url.query) |-> url.query[n][1]] = PresignedNames
    /\ url.query[1][2] = "AWS4-HMAC-SHA256"
    /\ SubSeq(url.query[2][2], 1, Len(config.accessKey) + 3) = config.accessKey \o "%2F"
    /\ url.query[3][2] = UrlSignature(url).words.message[2]
    /\ url.query[4][2] = ToString(ttl)
    /\ url.query[5][2] = "host"
    /\ UrlSignature(url).kind = "hex"
    /\ Line(SignedCanonicalRequest(UrlSignature(url)), 3) = QueryText(url.query, 5)

\* the presigned URLs made so far: by a caller of createPresignedUrl, by the
\* presigned strategy of a download (no ttl given), by the first probe
PresignedUrlsMade ==
    {[url |-> signed[n].result, config |-> signed[n].config,
      fileName |-> signed[n].fileName, ttl |-> signed[n].expirationSeconds] :
        n \in {m \in SignCalls : signed[m].fn = "createPresignedUrl"}}
    \cup {[url |-> requests[n].url, config |-> DefaultConfig, fileName |-> calledKey,
           ttl |-> 3600] :
            n \in {m \in 1..Len(requests) : requests[m].strategy = "presigned"}}
    \cup {[url |-> requests[n].url, config |-> DefaultConfig, fileName |-> TestKey,
           ttl |-> 60] :
            n \in {m \in 1..Len(requests) : requests[m].strategy = "probe1"}}

\* C31: a URL returned by createPresignedUrl is
\* https://{bucket}.s3.{region}.amazonaws.com/{encodeS3Key(key)} with a query
\* string made of the five signed parameters (X-Amz-Algorithm,
\* X-Amz-Credential, X-Amz-Date, X-Amz-Expires = the given ttl, 3600 when
\* none is given, X-Amz-SignedHeaders=host), with the values and the order
\* of the canonical query string, and X-Amz-Signature appended last.
C31_PresignedUrlShape ==
    \A made \in PresignedUrlsMade :
        PresignedShape(made.url, made.config, BucketName, made.fileName, made.ttl)

C31_Witness ==
    /\ SignedState
    /\ signed[1].fn = "createPresignedUrl"
    /\ signed[1].config = OtherConfig
    /\ signed[1].expirationSeconds = 60
    /\ signed[1].result.path = "/folder/My%20File%20%28final%29.pdf"
    /\ QueryText(signed[1].result.query, 5) =
           "X-Amz-Algorithm=AWS4-HMAC-SHA256"
               \o "&X-Amz-Credential=AKIDOTHER%2F20240101%2Feu-west-2%2Fs3%2Faws4_request"
               \o "&X-Amz-Date=20240101T235958Z&X-Amz-Expires=60&X-Amz-SignedHeaders=host"

\* headers is what createSignedHeaders returns for a clock reading whose
\* timestamp is stamp
SignedHeadersShape(headers, config, stamp) ==
    LET signature == HeadersSignature(headers)
        stringToSign == signature.words.message
        canonicalRequest == SignedCanonicalRequest(signature)
        date == SubSeq(stamp, 1, 8)
    IN  /\ DOMAIN headers = {"Authorization", "X-Amz-Date", "X-Amz-Content-Sha256"}
        /\ headers["X-Amz-Content-Sha256"] = "UNSIGNED-PAYLOAD"
        /\ Includes(headers["Authorization"].text, ", SignedHeaders=host;x-amz-date, ")
        /\ Line(canonicalRequest, 7) = "host;x-amz-date"
        /\ headers["X-Amz-Date"] = stamp
        /\ Line(canonicalRequest, 5) = "x-amz-date:" \o stamp
        /\ stringToSign[2] = stamp
        /\ stringToSign[3] = date \o "/" \o config.region \o "/s3/aws4_request"
        /\ Includes(headers["Authorization"].text,
                    " Credential=" \o config.accessKey \o "/" \o date \o "/")
        /\ signature.words.key.key.key.key.message = date

HeaderCalls == {n \in SignCalls : signed[n].fn = "createSignedHeaders"}

\* C32: createSignedHeaders returns the three headers Authorization,
\* X-Amz-Date and X-Amz-Content-Sha256 ('UNSIGNED-PAYLOAD'); Authorization
\* names SignedHeaders=host;x-amz-date; and the timestamp of the call is the
\* X-Amz-Date header, the x-amz-date canonical header, the second line of the
\* string to sign and, by its first 8 characters, the date of the credential
\* scope.
C32_SignedHeadersShape ==
    \A n \in HeaderCalls :
        SignedHeadersShape(signed[n].result, signed[n].config,
                           getAmzDateStrings(signed[n].clock).amzDate)

C32_Witness ==
    /\ SignedState
    /\ Len(signed) = 2
    /\ 2 \in HeaderCalls
    /\ signed[2].config = OtherConfig
    /\ signed[2].result["X-Amz-Date"] = "20240102T000000Z"
    /\ Line(SignedCanonicalRequest(HeadersSignature(signed[2].result)), 5) =
           "x-amz-date:20240102T000000Z"
    /\ Includes(signed[2].result["Authorization"].text,
                "AWS4-HMAC-SHA256 Credential=AKIDOTHER/20240102/eu-west-2/s3/aws4_request, ")

\* the method, the canonical URI and the host header that were signed for
\* a request
SignedMethod(req) == Line(SignedCanonicalRequest(RequestSignature(req)), 1)
SignedUri(req) == Line(SignedCanonicalRequest(RequestSignature(req)), 2)
SignedHostHeader(req) == Line(SignedCanonicalRequest(RequestSignature(req)), 4)

IssuesSignedRequests == op \in {"downloadFromS3", "testS3Connection"}

\* C33: for every signed request that downloadFromS3 and the presigned
\* probe of testS3Connection send, the method in the canonical request that
\* was signed is the method of the request sent.
C33_SignedMethodIsSent ==
    IssuesSignedRequests =>
        \A k \in 1..Len(requests) :
            IsSignedRequest(requests[k]) => SignedMethod(requests[k]) = requests[k].method

-----------------------------------------------------------------------------
(* fetch(url) parses its argument as a URL before it sends the request:   *)
(* in the path a '.' segment is dropped and a '..' segment removes the     *)
(* segment before it (as last segment either leaves an empty segment).    *)
(* The strings come from encodeS3Key, which leaves '.' as it is and never  *)
(* writes '%2e', so only the literal forms are modelled.                  *)

RECURSIVE ShortenedPath(_, _)
ShortenedPath(kept, segments) ==
    IF segments = <<>> THEN kept
    ELSE LET seg    == Head(segments)
             ending == IF Len(segments) = 1 THEN << <<>> >> ELSE <<>>
             popped == IF kept = <<>> THEN kept ELSE SubSeq(kept, 1, Len(kept) - 1)
             next   == IF seg = <<46, 46>> THEN popped \o ending
                       ELSE IF seg = <<46>> THEN kept \o ending
                       ELSE kept \o <<seg>>
         IN  ShortenedPath(next, Tail(segments))

\* the pathname of the parsed URL
ParsedPath(path) ==
    "/" \o Str(Join(ShortenedPath(<<>>, Split(Tail(Codes(path)), 47)), 47))

\* the path and the host that a fetch(url, options) requests
RequestedPath(req) == ParsedPath(req.url.path)
RequestedHost(req) == SubSeq(req.url.origin, Len("https://") + 1, Len(req.url.origin))

\* C34: for every request that either strategy of downloadFromS3 issues,
\* the host and the path of the URL requested are the host header and the
\* canonical URI that were signed for that request.
C34_RequestedIsSigned ==
    IsDownload =>
        \A k \in 1..Len(requests) :
            /\ "host:" \o RequestedHost(requests[k]) = SignedHostHeader(requests[k])
            /\ RequestedPath(requests[k]) = SignedUri(requests[k])


\* the requests issued so far under one strategy or probe name
RequestsOf(name) == {k \in 1..Len(requests) : requests[k].strategy = name}

\* C35: one downloadFromS3 call issues at most 6 HTTP requests, at most 3
\* for each of its two strategies; one testS3Connection call issues at most
\* 2, each probe at most once.
C35_RequestBudget ==
    /\ IsDownload =>
           /\ Len(requests) <= 6
           /\ \A name \in {"presigned", "direct"} : Cardinality(RequestsOf(name)) <= 3
           /\ \A k \in 1..Len(requests) : requests[k].strategy \in {"presigned", "direct"}
    /\ IsTest =>
           /\ Len(requests) <= 2
           /\ \A name \in {"probe1", "probe2"} : Cardinality(RequestsOf(name)) <= 1
           /\ \A k \in 1..Len(requests) : requests[k].strategy \in {"probe1", "probe2"}

C35_Witness ==
    /\ IsDownload
    /\ Thrown
    /\ Len(requests) = 6
    /\ RequestsOf("presigned") = 1..3
    /\ RequestsOf("direct") = 4..6
    /\ \A k \in 1..Len(settled) : ~IsResp(settled[k])

\* the texts that a request puts on the wire: its URL and its header values
RequestTexts(req) ==
    {UrlText(req.url)}
        \cup {IF h = "Authorization" THEN req.headers[h].text ELSE req.headers[h] :
                 h \in DOMAIN req.headers}

WireTexts == UNION {RequestTexts(requests[k]) : k \in 1..Len(requests)}

\* the signatures made in the call: of the requests it issued, or the one
\* in the value a signer returned
SignaturesMade ==
    {RequestSignature(requests[k]) :
         k \in {j \in 1..Len(requests) : IsSignedRequest(requests[j])}}
    \cup (IF IsSigner /\ Len(signed) \in SignCalls
              THEN {SignatureOf(signed[Len(signed)])} ELSE {})

\* the texts that were hashed or signed for a signature: the canonical
\* request and the first three lines of the string to sign
SignedTexts(signature) ==
    {SignedCanonicalRequest(signature)}
        \cup {signature.words.message[n] : n \in 1..3}

\* C36: the secretKey is used as HMAC key material only: it is part of no
\* URL requested, no request header, no progress event, no value returned
\* and no error message of downloadFromS3, createPresignedUrl,
\* createSignedHeaders or testS3Connection, and of no text that is hashed or
\* signed; every signature is keyed by the chain that starts from
\* 'AWS4' + secretKey.
C36_SecretKeyOnlyKeysHmac ==
    UsesCredentials =>
        /\ ~Leaks(WireTexts \cup OutcomeTexts \cup ProgressTexts, CallConfig.secretKey)
        /\ \A signature \in SignaturesMade :
               /\ ~Leaks(SignedTexts(signature), CallConfig.secretKey)
               /\ signature.words.kind = "HmacSHA256"
               /\ signature.words.key =
                      createSigningKey(CallConfig.secretKey,
                                       SubSeq(signature.words.message[2], 1, 8),
                                       CallConfig.region, "s3")

C36_Witness ==
    /\ IsDownload /\ Returned /\ hasProgress
    /\ Len(requests) = DefaultMaxRetries + 1
    /\ IsSignedUrl(requests[1].url)
    /\ HasAuth(requests[Len(requests)])
    /\ Cardinality(SignaturesMade) = 2
    /\ Leaks(WireTexts, DefaultConfig.accessKey)
    /\ \A signature \in SignaturesMade :
           signature.words.key.key.key.key.key = "AWS4" \o DefaultConfig.secretKey

\* the progress events that report a percentage
ReportsOf(percent) == {k \in 1..Len(progress) : progress[k].percent = percent}

\* C37: in a downloadFromS3 call with a progress callback, onProgress is
\* called with 100 exactly when the call returns a result; it is then called
\* with 100 once, as the last progress event; a call that throws has never
\* reported 100.
C37_HundredMeansReturned ==
    (IsDownload /\ hasProgress) =>
        /\ ReportsOf(100) # {} <=> Returned
        /\ ReportsOf(100) # {} => ReportsOf(100) = {Len(progress)}
        /\ Thrown => ReportsOf(100) = {}

\* a call that returns after a body read of its first strategy has failed
C37_Witness ==
    /\ IsDownload /\ hasProgress /\ Returned
    /\ ReportsOf(100) = {Len(progress)}
    /\ Cardinality(ReportsOf(80)) = 2
    /\ requests[Len(requests)].strategy = "direct"

\* the component was rendered with two configurations, each started a
\* download, and both downloads have run to their end
BothCompleted ==
    /\ IsWidget
    /\ Len(flows) = 2
    /\ \A render \in DOMAIN flows : flows[render].pc \in {"done", "failed"}

\* C38: when the configuration props change and start a second download
\* while the earlier one is in flight, then after both have completed, in
\* either order, the document URL, the error and the loading state shown
\* are those of the download of the latest configuration.
C38_LatestConfigWins ==
    BothCompleted =>
        /\ ~widget.isLoading
        /\ flows[2].pc = "done" =>
               /\ widget.error = <<>>
               /\ widget.pdfUrl # <<>>
               /\ widget.pdfUrl[1].blob = flows[2].pdfBlob
        /\ flows[2].pc = "failed" => widget.error # <<>>

====
